---- MODULE Spec2Model ----
(***************************************************************************)
(* CRM field-fallback synchronisation of the HubSpot connector.            *)
(*                                                                         *)
(* The model follows the call structure of the source:                      *)
(*   syncWithFallback            (services/hubspot.ts)  the 3-tier write    *)
(*   create*/update*WithFallback (services/hubspot.ts)  the public wrappers *)
(* Every `await makeRequest(...)` is one step; the remote store answers it  *)
(* by accepting (with the id of the record) or by rejecting (a throw).      *)
(***************************************************************************)
EXTENDS Integers, Sequences, FiniteSets, TLC

\* ------------------------------------------------------------------ bounds
\* Number of distinct record ids the remote store hands out.
NumRemoteIds == 2

RemoteIds == 1..NumRemoteIds
\* `undefined` as a record id (recordId before any write, id of a failed result).
NoId == 0

\* ------------------------------------------------------------------ values
\* JavaScript `undefined` as a property value.
Undefined == "<undefined>"

\* JavaScript truthiness of a (string | undefined) value.
Truthy(v) == v # Undefined /\ v # ""

\* obj[key] of a JavaScript object: undefined when the key is absent.
Get(obj, key) == IF key \in DOMAIN obj THEN obj[key] ELSE Undefined

\* { ...obj, [key]: value }
Put(obj, key, value) ==
  [k \in (DOMAIN obj) \cup {key} |-> IF k = key THEN value ELSE obj[k]]

EmptyObject == [k \in {} |-> Undefined]

Range(seq) == {seq[i] : i \in 1..Len(seq)}

\* ------------------------------------------------- property construction
\* Insertion order of the keys createSafeCompanyProperties can set.
CompanyKeys ==
  <<"name", "industry", "state", "domain", "numberofemployees", "city",
    "phone", "website", "description">>

\* Insertion order of the keys createSafeContactProperties can set.
ContactKeys ==
  <<"email", "firstname", "lastname", "jobtitle", "company", "phone",
    "hs_lead_status", "notes_last_contacted">>

CompanyCustomFields ==
  {"primary_formation", "drilling_activity_level", "geological_staff_size",
   "recent_permits_count", "last_permit_date", "status"}

ContactCustomFields ==
  {"geological_expertise", "years_experience", "education", "last_contact_date"}

\* The description written for a company: the caller's description, extended
\* by a "Geological Data:" block when any custom field is set.
CompanyDescription(companyData) ==
  LET hasCustom == \E f \in CompanyCustomFields : Truthy(Get(companyData, f))
      existing  == Get(companyData, "description")
  IN  IF hasCustom
        THEN (IF Truthy(existing) THEN "desc+geo" ELSE "geo")
        ELSE (IF Truthy(existing) THEN existing ELSE Undefined)

createSafeCompanyProperties(companyData) ==
  LET optional == {f \in {"domain", "numberofemployees", "city", "phone", "website"} :
                     Truthy(Get(companyData, f))}
      desc     == CompanyDescription(companyData)
      keys     == {"name", "industry", "state"} \cup optional
                    \cup (IF desc # Undefined THEN {"description"} ELSE {})
  IN  [k \in keys |-> IF k = "description" THEN desc ELSE Get(companyData, k)]

createSafeContactProperties(contactData) ==
  LET optional  == {f \in {"phone", "hs_lead_status"} : Truthy(Get(contactData, f))}
      hasCustom == \E f \in ContactCustomFields : Truthy(Get(contactData, f))
      keys      == {"email", "firstname", "lastname", "jobtitle", "company"}
                     \cup optional
                     \cup (IF hasCustom THEN {"notes_last_contacted"} ELSE {})
  IN  [k \in keys |-> IF k = "notes_last_contacted" THEN "custom"
                      ELSE Get(contactData, k)]

\* Object.keys(obj): the keys in insertion order.
ObjectKeys(obj, order) == SelectSeq(order, LAMBDA k : k \in DOMAIN obj)

\* Key order of the object type an endpoint addresses.
KeyOrder(objectType) == IF objectType = "companies" THEN CompanyKeys ELSE ContactKeys

\* --------------------------------------------------------------- variables
VARIABLES
  \* syncWithFallback: parameters
  endpoint,       \* object type of '/crm/v3/objects/<type>'
  method,         \* "POST" | "PATCH"
  allProperties,  \* the property object to write
  coreFields,     \* sequence of core field names
  \* syncWithFallback: locals
  swPc,           \* "idle" | "core" | "essential" | "sweep" | "returned"
  failedFields,   \* object: field -> value
  errors,         \* sequence of error messages
  recordId,       \* id taken from the response of the first accepted write
  sweepIdx,       \* position in remainingFields of the next field to look at
  result,         \* the SyncResult object returned (wrappers mutate it)
  \* create*/update*WithFallback
  wrPc,           \* "idle" | "call" | "note" | "done"
  wrKind,         \* "create" | "update"
  hubspotId,      \* update wrappers: the id of the existing record
  \* every request handed to makeRequest, in order, with the store's answer
  log,
  \* useHubSpotStore: the orchestration call in flight
  opPc,           \* control position of the orchestration call
  opKind,         \* "none" | "lead" | "deal" | "dealFallback" | "company" | "contact"
  opArg,          \* leadId / permitId / permitData of the call
  companyId,      \* syncLeadToHubSpot: let companyId
  companyResult,  \* syncLeadToHubSpot: let companyResult
  dealId,         \* newDeal.id
  foundId,        \* existingCompany / existingContact .results[0].id (deals)
  warnings,       \* const warnings: string[]
  opErrors,       \* const errors: string[]
  summary,        \* the SyncResultSummary returned
  dealResult,     \* the SyncResult createDealFromPermitWithFallback returns
  \* useLeadSourcingStore
  leadStore,      \* leads by id: syncedToHubSpot, hubSpotId
  totalSynced,    \* syncStatus.totalSynced
  \* useHubSpotStore: syncStatus
  isSyncing,      \* syncStatus.isSyncing
  \* BulkSyncButton: performBulkSync
  bulkPc,         \* "idle" | "call" | "await" | "pause" | "finished"
  bulkVariant,    \* "detailed" (counts warnings, keeps details) | "simple"
  bulkLeads,      \* the leads prop: sequence of lead ids
  bulkIdx,        \* the loop index i, from 1
  successful,     \* let successful
  failed,         \* let failed
  warned,         \* let warnings
  details,        \* const details: string[]
  finalResults,   \* the calls of onSyncComplete: their arguments, in order
  syncing,        \* component state `syncing`
  trace,          \* calls, returns, throws and pauses of the run, in order
  \* deduplicateResults and its caller
  dedupPc,        \* "idle" | "ready" | "once" | "twice"
  results,        \* the raw results handed to deduplicateResults
  deduplicated,   \* what deduplicateResults returned
  deduplicatedAgain  \* what it returned when applied to its own output

swVars == <<endpoint, method, allProperties, coreFields, swPc, failedFields,
            errors, recordId, sweepIdx, result>>
wrVars == <<wrPc, wrKind, hubspotId>>
opVars == <<opPc, opKind, opArg, companyId, companyResult, dealId, foundId, warnings, opErrors,
            summary, dealResult>>
storeVars == <<leadStore, totalSynced, isSyncing>>
bulkVars == <<bulkPc, bulkVariant, bulkLeads, bulkIdx, successful, failed, warned,
              details, finalResults, syncing, trace>>
dedupVars == <<dedupPc, results, deduplicated, deduplicatedAgain>>
vars == <<swVars, wrVars, log, opVars, storeVars, bulkVars, dedupVars>>

NoResult == [success |-> FALSE, id |-> NoId, failedFields |-> EmptyObject,
             errors |-> <<>>]

\* One makeRequest call and its outcome.
\* id: the record id in the URL (NoId for the collection endpoint);
\* rid: the id in the store's response (NoId when the request was rejected).
Request(kind, meth, objectType, id, props, ok, rid) ==
  [kind |-> kind, method |-> meth, obj |-> objectType, id |-> id,
   props |-> props, ok |-> ok, rid |-> rid]

\* ---------------------------------------------------------- syncWithFallback
\* coreProperties: the core fields whose value is not undefined.
CoreProperties ==
  [f \in {g \in Range(coreFields) : Get(allProperties, g) # Undefined}
     |-> allProperties[f]]

essentialField == coreFields[1]

\* (mutant) the essential field is tested with `!== undefined`, like the others.
EssentialPresent_DefinedOnly == Get(allProperties, essentialField) # Undefined

\* `if (allProperties[essentialField])`
EssentialPresent == Truthy(Get(allProperties, essentialField))

\* (mutant) the other core fields are not marked failed.
OtherCoreFailed_Forgotten == EmptyObject

\* coreFields.slice(1) with a defined value, marked failed after the
\* essential-only write.
OtherCoreFailed ==
  [f \in {coreFields[i] : i \in 2..Len(coreFields)}
          \cap {g \in DOMAIN allProperties : allProperties[g] # Undefined}
     |-> allProperties[f]]

\* Object.keys(allProperties).filter(field => !coreFields.includes(field))
remainingFields ==
  SelectSeq(ObjectKeys(allProperties, KeyOrder(endpoint)),
            LAMBDA f : f \notin Range(coreFields))

\* (mutant) the loop tests the value for truthiness, skipping '' values.
Attemptable_TruthyOnly(i) ==
  /\ Truthy(allProperties[remainingFields[i]])
  /\ recordId # NoId

\* `allProperties[field] !== undefined && recordId`
Attemptable(i) ==
  /\ allProperties[remainingFields[i]] # Undefined
  /\ recordId # NoId

\* Indexes of the fields the loop still has to send a request for.
Pending == {i \in sweepIdx..Len(remainingFields) : Attemptable(i)}

NextAttempt == CHOOSE i \in Pending : \A j \in Pending : i <= j

\* (mutant) the failure result carries the local failedFields, not allProperties.
FailureResult_LocalFailed(errs) ==
  [success |-> FALSE, id |-> NoId, failedFields |-> failedFields, errors |-> errs]

\* The result object returned when even the essential write failed or could
\* not be tried.
FailureResult(errs) ==
  [success |-> FALSE, id |-> NoId, failedFields |-> allProperties, errors |-> errs]

\* The result object returned after the sweep.
SuccessResult ==
  [success |-> TRUE, id |-> recordId, failedFields |-> failedFields,
   errors |-> errors]

\* Entry of syncWithFallback(endpoint, method, allProperties, coreFields).
EnterSync(objectType, meth, props, core) ==
  /\ endpoint' = objectType
  /\ method' = meth
  /\ allProperties' = props
  /\ coreFields' = core
  /\ swPc' = "core"
  /\ failedFields' = EmptyObject
  /\ errors' = <<>>
  /\ recordId' = NoId
  /\ sweepIdx' = 1
  /\ result' = NoResult

\* The write of the core fields, accepted.
CoreAccepted ==
  /\ swPc = "core"
  /\ \E id \in RemoteIds :
       /\ recordId' = id
       /\ log' = Append(log, Request("core", method, endpoint, NoId, CoreProperties, TRUE, id))
  /\ swPc' = "sweep"
  /\ UNCHANGED <<endpoint, method, allProperties, coreFields, failedFields,
                 errors, sweepIdx, result, wrVars,
                 opVars, storeVars, bulkVars, dedupVars>>

\* The write of the core fields, rejected: try the essential field, or give up.
CoreRejected ==
  /\ swPc = "core"
  /\ log' = Append(log, Request("core", method, endpoint, NoId, CoreProperties, FALSE, NoId))
  /\ errors' = Append(errors, <<"Core fields failed">>)
  /\ IF EssentialPresent
       THEN /\ swPc' = "essential"
            /\ result' = result
       ELSE /\ swPc' = "returned"
            /\ result' = FailureResult(errors')
  /\ UNCHANGED <<endpoint, method, allProperties, coreFields, failedFields,
                 recordId, sweepIdx, wrVars,
                 opVars, storeVars, bulkVars, dedupVars>>

EssentialProperties ==
  [f \in {essentialField} |-> allProperties[essentialField]]

\* (mutant) the essential-only path does not capture the id of the response.
EssentialAccepted_NoCapture ==
  /\ swPc = "essential"
  /\ \E id \in RemoteIds :
       log' = Append(log, Request("essential", method, endpoint, NoId,
                                  EssentialProperties, TRUE, id))
  /\ failedFields' = OtherCoreFailed
  /\ swPc' = "sweep"
  /\ UNCHANGED <<endpoint, method, allProperties, coreFields, errors, sweepIdx,
                 result, recordId, wrVars,
                 opVars, storeVars, bulkVars, dedupVars>>

\* The write of the essential field alone, accepted.
EssentialAccepted ==
  /\ swPc = "essential"
  /\ \E id \in RemoteIds :
       /\ recordId' = id
       /\ log' = Append(log, Request("essential", method, endpoint, NoId,
                                     EssentialProperties, TRUE, id))
  /\ failedFields' = OtherCoreFailed
  /\ swPc' = "sweep"
  /\ UNCHANGED <<endpoint, method, allProperties, coreFields, errors, sweepIdx,
                 result, wrVars,
                 opVars, storeVars, bulkVars, dedupVars>>

\* The write of the essential field alone, rejected: the sync fails.
EssentialRejected ==
  /\ swPc = "essential"
  /\ log' = Append(log, Request("essential", method, endpoint, NoId,
                                EssentialProperties, FALSE, NoId))
  /\ errors' = Append(errors, <<"Essential field failed">>)
  /\ result' = FailureResult(errors')
  /\ swPc' = "returned"
  /\ UNCHANGED <<endpoint, method, allProperties, coreFields, failedFields,
                 recordId, sweepIdx, wrVars,
                 opVars, storeVars, bulkVars, dedupVars>>

\* The PATCH of one remaining field against `${endpoint}/${recordId}`.
FieldRequest(i, ok) ==
  Request("field", "PATCH", endpoint, recordId,
          [f \in {remainingFields[i]} |-> allProperties[f]], ok,
          IF ok THEN recordId ELSE NoId)

\* (mutant) a rejected update ends the loop.
SweepContinue_StopOnReject(i, ok) ==
  IF ok THEN i + 1 ELSE Len(remainingFields) + 1

\* Where the loop goes on after the request for remainingFields[i].
SweepContinue(i, ok) == i + 1

\* (mutant) a rejected field is not recorded.
RecordFailure_Dropped(field) == failedFields

\* `failedFields[field] = allProperties[field]`
RecordFailure(field) == Put(failedFields, field, allProperties[field])

\* One update of the sweep, accepted.
SweepAccepted ==
  /\ swPc = "sweep"
  /\ Pending # {}
  /\ LET i == NextAttempt IN
       /\ log' = Append(log, FieldRequest(i, TRUE))
       /\ sweepIdx' = SweepContinue(i, TRUE)
  /\ UNCHANGED <<endpoint, method, allProperties, coreFields, swPc, failedFields,
                 errors, recordId, result, wrVars,
                 opVars, storeVars, bulkVars, dedupVars>>

\* One update of the sweep, rejected: the field is recorded, the loop goes on.
SweepRejected ==
  /\ swPc = "sweep"
  /\ Pending # {}
  /\ LET i == NextAttempt
         field == remainingFields[i]
     IN /\ log' = Append(log, FieldRequest(i, FALSE))
        /\ failedFields' = RecordFailure(field)
        /\ errors' = Append(errors, <<"Field failed", field>>)
        /\ sweepIdx' = SweepContinue(i, FALSE)
  /\ UNCHANGED <<endpoint, method, allProperties, coreFields, swPc, recordId,
                 result, wrVars,
                 opVars, storeVars, bulkVars, dedupVars>>

\* (mutant) the result is returned while updates are still outstanding.
SyncReturn_Early ==
  /\ swPc = "sweep"
  /\ result' = SuccessResult
  /\ swPc' = "returned"
  /\ UNCHANGED <<endpoint, method, allProperties, coreFields, failedFields,
                 errors, recordId, sweepIdx, wrVars, log,
                 opVars, storeVars, bulkVars, dedupVars>>

\* The loop is over: return { success: true, id, failedFields, errors }.
SyncReturn ==
  /\ swPc = "sweep"
  /\ Pending = {}
  /\ result' = SuccessResult
  /\ swPc' = "returned"
  /\ UNCHANGED <<endpoint, method, allProperties, coreFields, failedFields,
                 errors, recordId, sweepIdx, wrVars, log,
                 opVars, storeVars, bulkVars, dedupVars>>

\* ------------------------------------------------------ failed-field notes
\* key.replace(/_/g, ' ').replace(/\b\w/g, l => l.toUpperCase())
FormatKey(key) ==
  CASE key = "name" -> "Name"
    [] key = "industry" -> "Industry"
    [] key = "state" -> "State"
    [] key = "domain" -> "Domain"
    [] key = "numberofemployees" -> "Numberofemployees"
    [] key = "city" -> "City"
    [] key = "phone" -> "Phone"
    [] key = "website" -> "Website"
    [] key = "description" -> "Description"
    [] key = "email" -> "Email"
    [] key = "firstname" -> "Firstname"
    [] key = "lastname" -> "Lastname"
    [] key = "jobtitle" -> "Jobtitle"
    [] key = "company" -> "Company"
    [] key = "hs_lead_status" -> "Hs Lead Status"
    [] key = "notes_last_contacted" -> "Notes Last Contacted"

\* The note text, as its sequence of lines; the empty sequence is ''.
createFailedFieldsNote(fields, recordType) ==
  IF DOMAIN fields = {} THEN <<>>
  ELSE LET keys == ObjectKeys(fields, CompanyKeys \o ContactKeys)
       IN  <<  <<"Additional Data (Auto-synced)", recordType>> >>
           \o [i \in 1..Len(keys) |-> <<"bullet", FormatKey(keys[i]), fields[keys[i]]>>]
           \o << <<"">>, <<"Synced on">> >>

\* -------------------------------------------- create*/update*WithFallback
CompanyCoreFields == <<"name", "industry", "state">>
ContactCoreFields == <<"email", "firstname", "lastname">>
CompanyUpdateCoreFields == <<"name">>
ContactUpdateCoreFields == <<"email">>

createCompanyWithFallback(companyData) ==
  /\ wrPc' = "call"
  /\ wrKind' = "create"
  /\ hubspotId' = NoId
  /\ EnterSync("companies", "POST", createSafeCompanyProperties(companyData),
               CompanyCoreFields)

createContactWithFallback(contactData) ==
  /\ wrPc' = "call"
  /\ wrKind' = "create"
  /\ hubspotId' = NoId
  /\ EnterSync("contacts", "POST", createSafeContactProperties(contactData),
               ContactCoreFields)

updateCompanyWithFallback(id, companyData) ==
  /\ wrPc' = "call"
  /\ wrKind' = "update"
  /\ hubspotId' = id
  /\ EnterSync("companies", "PATCH", createSafeCompanyProperties(companyData),
               CompanyUpdateCoreFields)

updateContactWithFallback(id, contactData) ==
  /\ wrPc' = "call"
  /\ wrKind' = "update"
  /\ hubspotId' = id
  /\ EnterSync("contacts", "PATCH", createSafeContactProperties(contactData),
               ContactUpdateCoreFields)

\* The label the wrapper passes to createFailedFieldsNote.
RecordLabel ==
  IF endpoint = "companies"
    THEN (IF wrKind = "create" THEN "Company" ELSE "Company Update")
    ELSE (IF wrKind = "create" THEN "Contact" ELSE "Contact Update")

\* `result.id = hubspotId` of the update wrappers.
ResultAfterSync ==
  IF wrKind = "update" THEN [result EXCEPT !.id = hubspotId] ELSE result

\* (mutant) the note is written whenever fields are listed as failed.
NoteWanted_IgnoresSuccess(r) == DOMAIN r.failedFields # {}

\* Whether the wrapper writes a note for the fields that failed.
NoteWanted(r) ==
  IF wrKind = "create"
    THEN r.success /\ r.id # NoId /\ DOMAIN r.failedFields # {}
    ELSE r.success /\ DOMAIN r.failedFields # {}

\* syncWithFallback has returned to the wrapper.
WrapperResume ==
  /\ wrPc = "call"
  /\ swPc = "returned"
  /\ result' = ResultAfterSync
  /\ wrPc' = IF NoteWanted(result') THEN "note" ELSE "done"
  /\ swPc' = "idle"
  /\ UNCHANGED <<endpoint, method, allProperties, coreFields, failedFields,
                 errors, recordId, sweepIdx, wrKind, hubspotId, log,
                 opVars, storeVars, bulkVars, dedupVars>>

NoteRequest(ok) ==
  Request("note", "POST", IF endpoint = "companies" THEN "company" ELSE "contact",
          IF wrKind = "create" THEN result.id ELSE hubspotId,
          [body |-> createFailedFieldsNote(result.failedFields, RecordLabel)], ok,
          NoId)

\* createNote of the wrapper, accepted.
WrapperNoteAccepted ==
  /\ wrPc = "note"
  /\ log' = Append(log, NoteRequest(TRUE))
  /\ wrPc' = "done"
  /\ UNCHANGED <<swVars, wrKind, hubspotId,
                 opVars, storeVars, bulkVars, dedupVars>>

\* createNote of the wrapper, rejected: one more entry in result.errors.
WrapperNoteRejected ==
  /\ wrPc = "note"
  /\ log' = Append(log, NoteRequest(FALSE))
  /\ result' = [result EXCEPT !.errors = Append(@, <<"Failed to create note">>)]
  /\ wrPc' = "done"
  /\ UNCHANGED <<endpoint, method, allProperties, coreFields, swPc, failedFields,
                 errors, recordId, sweepIdx, wrKind, hubspotId,
                 opVars, storeVars, bulkVars, dedupVars>>

SyncStep ==
  \/ CoreAccepted
  \/ CoreRejected
  \/ EssentialAccepted
  \/ EssentialRejected
  \/ SweepAccepted
  \/ SweepRejected
  \/ SyncReturn
  \/ WrapperResume
  \/ WrapperNoteAccepted
  \/ WrapperNoteRejected

\* No search results are being deduplicated.
InitDedupIdle ==
  /\ dedupPc = "idle"
  /\ results = <<>>
  /\ deduplicated = <<>>
  /\ deduplicatedAgain = <<>>

\* The button before a bulk run.
InitBulk ==
  /\ bulkPc = "idle"
  /\ bulkVariant = "detailed"
  /\ bulkLeads = <<>>
  /\ bulkIdx = 1
  /\ successful = 0
  /\ failed = 0
  /\ warned = 0
  /\ details = <<>>
  /\ finalResults = <<>>
  /\ syncing = FALSE
  /\ trace = <<>>

\* No orchestration call in flight.
NoSummary == [success |-> FALSE, hubspotId |-> NoId, warnings |-> <<>>,
              errors |-> <<>>]

InitOp ==
  /\ opPc = "idle"
  /\ opKind = "none"
  /\ opArg = NoId
  /\ companyId = NoId
  /\ companyResult = NoResult
  /\ dealId = NoId
  /\ foundId = NoId
  /\ warnings = <<>>
  /\ opErrors = <<>>
  /\ summary = NoSummary
  /\ dealResult = NoResult

\* ------------------------------------------------ the service, called alone
\* Company data a caller passes (HubSpotCompany, or Partial<> of it on update).
CompanyInputs ==
  [name : {Undefined, "", "Acme"}, industry : {Undefined, "Oil & Gas"},
   state : {"Oklahoma"}, domain : {Undefined, "acme.com"},
   numberofemployees : {Undefined, "11-50"}, description : {Undefined, "desc"},
   primary_formation : {Undefined, "Woodford"}]

\* Contact data a caller passes (HubSpotContact, or Partial<> of it on update).
ContactInputs ==
  [email : {Undefined, "", "a@x.com"}, firstname : {"", "Ann"},
   lastname : {"", "Lee"}, jobtitle : {"VP"}, company : {"", "Acme"},
   phone : {Undefined, "555"}, hs_lead_status : {"NEW"},
   education : {Undefined, "PhD"}]

InitService ==
  /\ endpoint = "companies"
  /\ method = "POST"
  /\ allProperties = EmptyObject
  /\ coreFields = <<>>
  /\ swPc = "idle"
  /\ failedFields = EmptyObject
  /\ errors = <<>>
  /\ recordId = NoId
  /\ sweepIdx = 1
  /\ result = NoResult
  /\ wrPc = "idle"
  /\ wrKind = "create"
  /\ hubspotId = NoId
  /\ log = <<>>
  /\ InitOp
  /\ leadStore = EmptyObject
  /\ totalSynced = 0
  /\ isSyncing = FALSE
  /\ InitBulk
  /\ InitDedupIdle

CallCreateCompany ==
  /\ wrPc = "idle"
  /\ \E d \in CompanyInputs : createCompanyWithFallback(d)
  /\ UNCHANGED <<log, opVars, storeVars, bulkVars, dedupVars>>

CallCreateContact ==
  /\ wrPc = "idle"
  /\ \E d \in ContactInputs : createContactWithFallback(d)
  /\ UNCHANGED <<log, opVars, storeVars, bulkVars, dedupVars>>

CallUpdateCompany ==
  /\ wrPc = "idle"
  /\ \E d \in CompanyInputs, id \in RemoteIds : updateCompanyWithFallback(id, d)
  /\ UNCHANGED <<log, opVars, storeVars, bulkVars, dedupVars>>

CallUpdateContact ==
  /\ wrPc = "idle"
  /\ \E d \in ContactInputs, id \in RemoteIds : updateContactWithFallback(id, d)
  /\ UNCHANGED <<log, opVars, storeVars, bulkVars, dedupVars>>

NextService ==
  \/ CallCreateCompany
  \/ CallCreateContact
  \/ CallUpdateCompany
  \/ CallUpdateContact
  \/ SyncStep

SpecService == InitService /\ [][NextService]_vars

\* ---------------------------------------------------------------- leads
\* The leads of the lead store, by id: one lead with a contact that has an
\* email, one with a contact without email and with empty optional strings,
\* and plain leads without contact.
LeadRecord(id) ==
  IF id = 101 THEN
    [companyName |-> "Acme", website |-> Undefined, industry |-> "Oil & Gas",
     location |-> "Oklahoma", size |-> Undefined, description |-> Undefined,
     contact |-> [present |-> TRUE, name |-> <<"Ann", "Lee">>, title |-> "VP",
                  email |-> "a@x.com"]]
  ELSE IF id = 102 THEN
    [companyName |-> "Acme", website |-> "acme.com", industry |-> "",
     location |-> "", size |-> "11-50", description |-> Undefined,
     contact |-> [present |-> TRUE, name |-> <<"Bob">>, title |-> "",
                  email |-> Undefined]]
  ELSE
    [companyName |-> "Acme", website |-> Undefined, industry |-> "Oil & Gas",
     location |-> "Oklahoma", size |-> Undefined, description |-> Undefined,
     contact |-> [present |-> FALSE, name |-> <<>>, title |-> Undefined,
                  email |-> Undefined]]

\* `a || b` on strings.
OrElse(a, b) == IF Truthy(a) THEN a ELSE b

\* updateData / companyData built from a lead (the two literals are equal).
LeadCompanyData(lead) ==
  [name |-> lead.companyName,
   industry |-> OrElse(lead.industry, "Oil & Gas"),
   state |-> OrElse(lead.location, "Unknown"),
   domain |-> lead.website,
   numberofemployees |-> OrElse(lead.size, "Unknown"),
   description |-> lead.description]

\* contactData built from lead.contact; name.split(' ') is the sequence of
\* words (names of at most two words).
LeadContactData(lead) ==
  LET nameParts == lead.contact.name IN
  [email |-> lead.contact.email,
   firstname |-> IF Len(nameParts) >= 1 THEN nameParts[1] ELSE "",
   lastname |-> IF Len(nameParts) >= 2 THEN nameParts[2] ELSE "",
   jobtitle |-> OrElse(lead.contact.title, "Unknown"),
   company |-> lead.companyName,
   hs_lead_status |-> "NEW"]

\* The answers of a search request: a throw, no match, or the first match.
SearchAnswers ==
  {[ok |-> FALSE, id |-> NoId]} \cup {[ok |-> TRUE, id |-> i] : i \in RemoteIds \cup {NoId}}

\* `existing.results && existing.results.length > 0`
\* (mutant) `if (existingCompany.results)`: an empty list counts as a match.
Found_AnyAnswer(answer) == answer.ok

Found(answer) == answer.ok /\ answer.id # NoId

SearchRequest(objectType, key, value, answer) ==
  Request("search", "POST", objectType, NoId, [k \in {key} |-> value],
          answer.ok, answer.id)

AssociationRequest(kind, fromId, toId, ok) ==
  Request("assoc", "POST", kind, fromId, [to |-> toId], ok, NoId)

\* createNote(content, type, id) of the orchestration layer.
OpNoteRequest(objectType, id, ok) ==
  Request("note", "POST", objectType, id, [body |-> <<"provenance">>], ok, NoId)

\* markAsSynced(leadId, hubSpotId) of the lead store.
markAsSynced(leadId, id) ==
  /\ leadStore' = [l \in DOMAIN leadStore |->
                     IF l = leadId THEN [synced |-> TRUE, hubSpotId |-> id]
                     ELSE leadStore[l]]
  /\ totalSynced' = totalSynced + 1

\* { success: false, errors: [message], warnings: [] }
\* (mutant) the early return reports the call as a success.
FailureSummary_Succeeds(message) ==
  [success |-> TRUE, hubspotId |-> NoId, warnings |-> <<>>,
   errors |-> <<message>>]

FailureSummary(message) ==
  [success |-> FALSE, hubspotId |-> NoId, warnings |-> <<>>,
   errors |-> <<message>>]

\* (mutant) the operation has no outer try/catch: the exception leaves it.
OuterCatch_Rethrown(message) ==
  /\ summary' = summary
  /\ opPc' = "escaped"

\* The outer catch of a store operation: the failure summary is returned.
OuterCatch(message) ==
  /\ summary' = FailureSummary(message)
  /\ opPc' = "done"

\* ------------------------------------------------------ syncLeadToHubSpot
\* Lead ids a caller passes: the leads of the store and one unknown id.
LeadIdArgs == {1, 101, 102, 103}

\* Entry of syncLeadToHubSpot(leadId): the lead is looked up in the store.
syncLeadToHubSpot(leadId) ==
  /\ opArg' = leadId
  /\ opKind' = "lead"
  /\ IF leadId \notin DOMAIN leadStore
       THEN /\ summary' = FailureSummary(<<"Lead not found", leadId>>)
            /\ opPc' = "done"
       ELSE /\ summary' = NoSummary
            /\ opPc' = "leadSearchCompany"

CallSyncLead ==
  /\ opPc = "idle"
  /\ wrPc = "idle"
  /\ \E leadId \in LeadIdArgs : syncLeadToHubSpot(leadId)
  /\ UNCHANGED <<swVars, wrVars, log, companyId, companyResult, dealId, warnings,
                 opErrors, dealResult, storeVars, foundId, bulkVars, dedupVars>>

\* searchCompanyByName(lead.companyName), then the update or the create.
LeadSearchCompany ==
  /\ opPc = "leadSearchCompany"
  /\ \E answer \in SearchAnswers :
       LET lead == LeadRecord(opArg) IN
       /\ log' = Append(log, SearchRequest("companies", "name", lead.companyName, answer))
       /\ IF ~answer.ok
            THEN /\ OuterCatch(<<"search failed">>)
                 /\ UNCHANGED <<swVars, wrVars, companyId>>
            ELSE /\ summary' = summary
                 /\ opPc' = "leadCompanySync"
                 /\ IF Found(answer)
                      THEN /\ companyId' = answer.id
                           /\ updateCompanyWithFallback(answer.id, LeadCompanyData(lead))
                      ELSE /\ companyId' = companyId
                           /\ createCompanyWithFallback(LeadCompanyData(lead))
  /\ UNCHANGED <<opKind, opArg, companyResult, dealId, warnings, opErrors, dealResult,
                 storeVars, foundId, bulkVars, dedupVars>>

\* `companyId = companyResult.id!` after the create; the found id otherwise.
CompanyIdAfterSync == IF wrKind = "create" THEN result.id ELSE companyId

\* `if (lead.contact && lead.contact.email)`
HasContactEmail(lead) == lead.contact.present /\ Truthy(lead.contact.email)

FieldsWarning(r, text) ==
  IF DOMAIN r.failedFields # {} THEN << <<text>> >> ELSE <<>>

\* The company write has returned: collect its errors and warnings.
LeadCompanySynced ==
  /\ opPc = "leadCompanySync"
  /\ wrPc = "done"
  /\ companyResult' = result
  /\ companyId' = CompanyIdAfterSync
  /\ opErrors' = result.errors
  /\ warnings' = FieldsWarning(result, "Some company data stored as notes")
  /\ opPc' = IF HasContactEmail(LeadRecord(opArg)) THEN "leadSearchContact"
             ELSE "leadNote"
  /\ wrPc' = "idle"
  /\ UNCHANGED <<swVars, wrKind, hubspotId, log, opKind, opArg, dealId, summary,
                 dealResult, storeVars, foundId, bulkVars, dedupVars>>

\* searchContactByEmail(lead.contact.email); a contact is created when none
\* is found; a throw becomes a warning.
LeadSearchContact ==
  /\ opPc = "leadSearchContact"
  /\ \E answer \in SearchAnswers :
       LET lead == LeadRecord(opArg) IN
       /\ log' = Append(log, SearchRequest("contacts", "email", lead.contact.email, answer))
       /\ IF ~answer.ok
            THEN /\ warnings' = Append(warnings, <<"Company synced but contact creation failed">>)
                 /\ opPc' = "leadNote"
                 /\ UNCHANGED <<swVars, wrVars>>
            ELSE IF Found(answer)
            THEN /\ warnings' = warnings
                 /\ opPc' = "leadNote"
                 /\ UNCHANGED <<swVars, wrVars>>
            ELSE /\ warnings' = warnings
                 /\ opPc' = "leadContactSync"
                 /\ createContactWithFallback(LeadContactData(lead))
  /\ UNCHANGED <<opKind, opArg, companyId, companyResult, dealId, opErrors, summary,
                 dealResult, storeVars, foundId, bulkVars, dedupVars>>

\* `if (contactResult.success && contactResult.id)`
\* (mutant) the branch is never taken: a created contact stays unassociated.
AssociationWanted_Never(r) == FALSE

AssociationWanted(r) == r.success /\ r.id # NoId

\* The errors and warnings taken over from contactResult.
WithContactOutcome(ws) ==
  ws \o FieldsWarning(result, "Some contact data stored as notes")

\* The contact write has returned.
LeadContactSynced ==
  /\ opPc = "leadContactSync"
  /\ wrPc = "done"
  /\ wrPc' = "idle"
  /\ IF AssociationWanted(result)
       THEN /\ opPc' = "leadAssociate"
            /\ UNCHANGED <<warnings, opErrors>>
       ELSE /\ opPc' = "leadNote"
            /\ opErrors' = opErrors \o result.errors
            /\ warnings' = WithContactOutcome(warnings)
  /\ UNCHANGED <<swVars, wrKind, hubspotId, log, opKind, opArg, companyId, companyResult,
                 dealId, summary, dealResult, storeVars, foundId, bulkVars, dedupVars>>

\* The warning list after a request that only warns when it fails.
\* (mutant) the catch block is empty: the failure leaves no warning.
WarnUnless_Silent(ws, ok, text) == ws

WarnUnless(ws, ok, text) == IF ok THEN ws ELSE Append(ws, <<text>>)

\* associateContactWithCompany(contactResult.id, companyId).
LeadAssociate ==
  /\ opPc = "leadAssociate"
  /\ \E ok \in BOOLEAN :
       /\ log' = Append(log, AssociationRequest("contact_to_company", result.id,
                                                companyId, ok))
       /\ warnings' = WithContactOutcome(
                        WarnUnless(warnings, ok,
                                         "Contact created but association failed"))
  /\ opErrors' = opErrors \o result.errors
  /\ opPc' = "leadNote"
  /\ UNCHANGED <<swVars, wrVars, opKind, opArg, companyId, companyResult, dealId, summary,
                 dealResult, storeVars, foundId, bulkVars, dedupVars>>

\* The summary syncLeadToHubSpot returns.
\* (mutant) a failed provenance note turns the call into a failure.
LeadSummary_NoteFatal(ws) ==
  [success |-> companyResult.success
                 /\ \A k \in 1..Len(ws) :
                      ws[k] # <<"Lead synced but note creation failed">>,
   hubspotId |-> companyId, warnings |-> ws, errors |-> opErrors]

LeadSummary(ws) ==
  [success |-> companyResult.success, hubspotId |-> companyId, warnings |-> ws,
   errors |-> opErrors]

\* createNote(..., 'company', companyId), markAsSynced and the return.
LeadNote ==
  /\ opPc = "leadNote"
  /\ \E ok \in BOOLEAN :
       /\ log' = Append(log, OpNoteRequest("company", companyId, ok))
       /\ warnings' = WarnUnless(warnings, ok,
                                       "Lead synced but note creation failed")
  /\ markAsSynced(opArg, companyId)
  /\ summary' = LeadSummary(warnings')
  /\ opPc' = "done"
  /\ UNCHANGED <<swVars, wrVars, opKind, opArg, companyId, companyResult, dealId,
                 opErrors, isSyncing, dealResult, foundId, bulkVars, dedupVars>>

\* ---------------------------------------- permits, companies, contacts
\* The permits of the permit store, by id: permit 1 belongs to a company
\* with contacts, permit 2 to a company without contacts, permit 3 to a
\* company the company store does not hold.
PermitRecord(id) ==
  [companyId |-> IF id = 1 THEN 1 ELSE IF id = 2 THEN 2 ELSE 9,
   formationTarget |-> "Woodford", county |-> "Kay", state |-> "Oklahoma"]

LocalPermits == {1, 2, 3}

\* companyStore.companies.find(c => c.id === permit.companyId)
LocalCompany(id) ==
  IF id = 1 THEN
    [present |-> TRUE, name |-> "Acme", state |-> "Oklahoma", size |-> "Small",
     primaryFormation |-> "Woodford", drillingActivityLevel |-> Undefined,
     geologicalStaffSize |-> "3", recentPermitsCount |-> "2",
     lastPermitDate |-> Undefined, status |-> Undefined]
  ELSE IF id = 2 THEN
    [present |-> TRUE, name |-> "Acme", state |-> "Oklahoma", size |-> "Large",
     primaryFormation |-> Undefined, drillingActivityLevel |-> Undefined,
     geologicalStaffSize |-> Undefined, recentPermitsCount |-> "0",
     lastPermitDate |-> Undefined, status |-> Undefined]
  ELSE [present |-> FALSE, name |-> Undefined]

\* contactStore.contacts.filter(c => c.companyId === permit.companyId)
CompanyContacts(id) ==
  IF id = 1 THEN << [title |-> "Geologist", email |-> "g@x.com"],
                    [title |-> "VP Exploration", email |-> "vp@x.com"] >>
  ELSE <<>>

\* c.title.includes('Chief') || c.title.includes('VP')
IsExecutive(contact) == contact.title \in {"VP Exploration", "Chief Geologist"}

\* companyContacts.find(executive) || companyContacts[0]
PrimaryContact(contacts) ==
  IF \E i \in 1..Len(contacts) : IsExecutive(contacts[i])
    THEN contacts[CHOOSE i \in 1..Len(contacts) :
                    /\ IsExecutive(contacts[i])
                    /\ \A j \in 1..(i - 1) : ~IsExecutive(contacts[j])]
    ELSE contacts[1]

DealRequest(props, ok, id) == Request("deal", "POST", "deals", NoId, props, ok, id)

\* The answers of a create request: a throw, or the id of the new record.
CreateAnswers ==
  {[ok |-> FALSE, id |-> NoId]} \cup {[ok |-> TRUE, id |-> i] : i \in RemoteIds}

\* --------------------------------------------------- createDealFromPermit
\* Permit ids a caller passes: the permits of the store and one unknown id.
PermitIdArgs == LocalPermits \cup {4}

\* The step after the deal is created, and after each optional step.
DealAfterCreate(permit) ==
  IF LocalCompany(permit.companyId).present THEN "dealSearchCompany"
  ELSE IF Len(CompanyContacts(permit.companyId)) > 0 THEN "dealSearchContact"
  ELSE "dealNote"

DealAfterCompany(permit) ==
  IF Len(CompanyContacts(permit.companyId)) > 0 THEN "dealSearchContact"
  ELSE "dealNote"

CallCreateDealFromPermit ==
  /\ opPc = "idle"
  /\ wrPc = "idle"
  /\ \E permitId \in PermitIdArgs :
       /\ opArg' = permitId
       /\ opKind' = "deal"
       /\ IF permitId \notin LocalPermits
            THEN /\ summary' = FailureSummary(<<"Permit not found", permitId>>)
                 /\ opPc' = "done"
            ELSE /\ summary' = summary
                 /\ opPc' = "dealCreate"
  /\ UNCHANGED <<swVars, wrVars, log, companyId, companyResult, dealId, warnings,
                 opErrors, dealResult, storeVars, foundId, bulkVars, dedupVars>>

\* dealData of createDealFromPermit, as createDeal sends it.
PermitDealProperties(permit) ==
  [dealname |-> <<OrElse(LocalCompany(permit.companyId).name, "Unknown"),
                  permit.formationTarget, "Opportunity">>,
   dealstage |-> <<"appointmentscheduled">>,
   pipeline |-> <<"default">>,
   closedate |-> <<"in 90 days">>,
   description |-> <<"Type", "Formation", "Location">>]

\* hubspotService.createDeal(dealData): a throw ends the call with a failure.
DealCreate ==
  /\ opPc = "dealCreate"
  /\ \E answer \in CreateAnswers :
       LET permit == PermitRecord(opArg) IN
       /\ log' = Append(log, DealRequest(PermitDealProperties(permit), answer.ok, answer.id))
       /\ dealId' = answer.id
       /\ IF answer.ok
            THEN /\ opPc' = DealAfterCreate(permit)
                 /\ summary' = summary
            ELSE OuterCatch(<<"create deal failed">>)
  /\ UNCHANGED <<swVars, wrVars, opKind, opArg, companyId, companyResult, warnings,
                 opErrors, dealResult, storeVars, foundId, bulkVars, dedupVars>>

\* searchCompanyByName(company.name) inside the company association try.
DealSearchCompany ==
  /\ opPc = "dealSearchCompany"
  /\ \E answer \in SearchAnswers :
       LET permit == PermitRecord(opArg) IN
       /\ log' = Append(log, SearchRequest("companies", "name",
                                           LocalCompany(permit.companyId).name, answer))
       /\ foundId' = answer.id
       /\ warnings' = WarnUnless(warnings, answer.ok,
                                 "Deal created but company association failed")
       /\ opPc' = IF Found(answer) THEN "dealAssocCompany" ELSE DealAfterCompany(permit)
  /\ UNCHANGED <<swVars, wrVars, opKind, opArg, companyId, companyResult, dealId, opErrors,
                 summary, dealResult, storeVars, bulkVars, dedupVars>>

\* associateDealWithCompany(newDeal.id, existingCompany.results[0].id)
DealAssocCompany ==
  /\ opPc = "dealAssocCompany"
  /\ \E ok \in BOOLEAN :
       /\ log' = Append(log, AssociationRequest("deal_to_company", dealId, foundId, ok))
       /\ warnings' = WarnUnless(warnings, ok,
                                 "Deal created but company association failed")
  /\ opPc' = DealAfterCompany(PermitRecord(opArg))
  /\ UNCHANGED <<swVars, wrVars, opKind, opArg, companyId, companyResult, dealId,
                 opErrors, summary, dealResult, storeVars, foundId, bulkVars, dedupVars>>

\* searchContactByEmail(primaryContact.email) inside the contact association try.
DealSearchContact ==
  /\ opPc = "dealSearchContact"
  /\ \E answer \in SearchAnswers :
       LET permit == PermitRecord(opArg)
           primaryContact == PrimaryContact(CompanyContacts(permit.companyId))
       IN
       /\ log' = Append(log, SearchRequest("contacts", "email", primaryContact.email, answer))
       /\ foundId' = answer.id
       /\ warnings' = WarnUnless(warnings, answer.ok,
                                 "Deal created but contact association failed")
       /\ opPc' = IF Found(answer) THEN "dealAssocContact" ELSE "dealNote"
  /\ UNCHANGED <<swVars, wrVars, opKind, opArg, companyId, companyResult,
                 dealId, opErrors, summary, dealResult, storeVars, bulkVars, dedupVars>>

\* associateDealWithContact(newDeal.id, existingContact.results[0].id)
DealAssocContact ==
  /\ opPc = "dealAssocContact"
  /\ \E ok \in BOOLEAN :
       /\ log' = Append(log, AssociationRequest("deal_to_contact", dealId, foundId, ok))
       /\ warnings' = WarnUnless(warnings, ok,
                                 "Deal created but contact association failed")
  /\ opPc' = "dealNote"
  /\ UNCHANGED <<swVars, wrVars, opKind, opArg, companyId, companyResult, dealId,
                 opErrors, summary, dealResult, storeVars, foundId, bulkVars, dedupVars>>

\* { success: true, warnings, errors: [], hubspotId: newDeal.id }
\* (mutant) a warning of an optional step turns the deal into a failure.
DealSummary_CleanOnly(ws) ==
  [success |-> ws = <<>>, hubspotId |-> dealId, warnings |-> ws, errors |-> <<>>]

DealSummary(ws) ==
  [success |-> TRUE, hubspotId |-> dealId, warnings |-> ws, errors |-> <<>>]

\* createNote(..., 'deal', newDeal.id) and the return.
DealNote ==
  /\ opPc = "dealNote"
  /\ \E ok \in BOOLEAN :
       /\ log' = Append(log, OpNoteRequest("deal", dealId, ok))
       /\ warnings' = WarnUnless(warnings, ok, "Deal created but note creation failed")
  /\ summary' = DealSummary(warnings')
  /\ opPc' = "done"
  /\ UNCHANGED <<swVars, wrVars, opKind, opArg, companyId, companyResult, dealId,
                 opErrors, dealResult, storeVars, foundId, bulkVars, dedupVars>>

\* --------------------------------------- createDealFromPermitWithFallback
\* permitData a caller passes, by index: formation and location.state are
\* optional.
PermitDataArgs == {1, 2, 3, 4}

PermitData(k) ==
  [operatorName |-> "Acme",
   formation |-> IF k \in {1, 2} THEN "Woodford" ELSE Undefined,
   state |-> IF k \in {1, 3} THEN "Oklahoma" ELSE Undefined]

\* dealData of createDealFromPermitWithFallback.
FallbackDealProperties(permitData) ==
  [dealname |-> <<permitData.operatorName, OrElse(permitData.formation, "Drilling"),
                  "Opportunity">>,
   dealstage |-> <<"appointmentscheduled">>,
   pipeline |-> <<"default">>,
   closedate |-> <<"in 90 days">>]

\* companyData of the operator's company, created when the search finds none.
OperatorCompanyData(permitData) ==
  [name |-> permitData.operatorName,
   industry |-> "Oil & Gas",
   state |-> OrElse(permitData.state, "Unknown"),
   description |-> "desc"]

CallCreateDealFromPermitWithFallback ==
  /\ opPc = "idle"
  /\ wrPc = "idle"
  /\ \E k \in PermitDataArgs : opArg' = k
  /\ opKind' = "dealFallback"
  /\ opPc' = "dfCreate"
  /\ UNCHANGED <<swVars, wrVars, log, companyId, companyResult, dealId, foundId,
                 warnings, opErrors, summary, dealResult, storeVars, bulkVars, dedupVars>>

\* return { success: false, failedFields: {}, errors }
DealFailure ==
  [success |-> FALSE, id |-> NoId, failedFields |-> EmptyObject,
   errors |-> << <<"Failed to create deal">> >>]

\* return { success: true, id: newDeal.id, failedFields: {}, errors: warnings }
DealSuccess(ws) ==
  [success |-> TRUE, id |-> dealId, failedFields |-> EmptyObject, errors |-> ws]

\* makeRequest('/crm/v3/objects/deals', 'POST', ...): a throw is fatal.
DfCreate ==
  /\ opPc = "dfCreate"
  /\ \E answer \in CreateAnswers :
       /\ log' = Append(log, DealRequest(FallbackDealProperties(PermitData(opArg)),
                                         answer.ok, answer.id))
       /\ dealId' = answer.id
       /\ IF answer.ok
            THEN /\ opPc' = "dfNote"
                 /\ dealResult' = dealResult
            ELSE /\ opPc' = "done"
                 /\ dealResult' = DealFailure
  /\ UNCHANGED <<swVars, wrVars, opKind, opArg, companyId, companyResult, foundId,
                 warnings, opErrors, summary, storeVars, bulkVars, dedupVars>>

\* createNote(createPermitNote(permitData), 'deal', newDeal.id)
DfNote ==
  /\ opPc = "dfNote"
  /\ \E ok \in BOOLEAN :
       /\ log' = Append(log, OpNoteRequest("deal", dealId, ok))
       /\ warnings' = WarnUnless(warnings, ok, "Deal created but note creation failed")
  /\ opPc' = "dfSearchCompany"
  /\ UNCHANGED <<swVars, wrVars, opKind, opArg, companyId, companyResult, dealId,
                 foundId, opErrors, summary, dealResult, storeVars, bulkVars, dedupVars>>

\* searchCompanyByName(permitData.operatorName): associate with the match, or
\* create the company; a throw becomes a warning and the deal is returned.
DfSearchCompany ==
  /\ opPc = "dfSearchCompany"
  /\ \E answer \in SearchAnswers :
       LET permitData == PermitData(opArg) IN
       /\ log' = Append(log, SearchRequest("companies", "name",
                                           permitData.operatorName, answer))
       /\ foundId' = answer.id
       /\ IF ~answer.ok
            THEN /\ warnings' = Append(warnings,
                                  <<"Deal created but company association failed">>)
                 /\ dealResult' = DealSuccess(warnings')
                 /\ opPc' = "done"
                 /\ UNCHANGED <<swVars, wrVars>>
            ELSE IF Found(answer)
            THEN /\ opPc' = "dfAssociate"
                 /\ UNCHANGED <<swVars, wrVars, warnings, dealResult>>
            ELSE /\ opPc' = "dfCompanySync"
                 /\ createCompanyWithFallback(OperatorCompanyData(permitData))
                 /\ UNCHANGED <<warnings, dealResult>>
  /\ UNCHANGED <<opKind, opArg, companyId, companyResult, dealId, opErrors, summary,
                 storeVars, bulkVars, dedupVars>>

\* createCompanyWithFallback has returned: associate when it has an id.
DfCompanySynced ==
  /\ opPc = "dfCompanySync"
  /\ wrPc = "done"
  /\ wrPc' = "idle"
  /\ companyResult' = result
  /\ foundId' = result.id
  /\ IF AssociationWanted(result)
       THEN /\ opPc' = "dfAssociate"
            /\ dealResult' = dealResult
       ELSE /\ opPc' = "done"
            /\ dealResult' = DealSuccess(warnings)
  /\ UNCHANGED <<swVars, wrKind, hubspotId, log, opKind, opArg, companyId, dealId,
                 warnings, opErrors, summary, storeVars, bulkVars, dedupVars>>

\* associateDealWithCompany(newDeal.id, <company id>) and the return.
DfAssociate ==
  /\ opPc = "dfAssociate"
  /\ \E ok \in BOOLEAN :
       /\ log' = Append(log, AssociationRequest("deal_to_company", dealId, foundId, ok))
       /\ warnings' = WarnUnless(warnings, ok,
                                 "Deal created but company association failed")
  /\ dealResult' = DealSuccess(warnings')
  /\ opPc' = "done"
  /\ UNCHANGED <<swVars, wrVars, opKind, opArg, companyId, companyResult, dealId,
                 foundId, opErrors, summary, storeVars, bulkVars, dedupVars>>


\* ------------------------------------------------------------ syncCompany
\* Company ids a caller passes: the companies of the store and one unknown id.
CompanyIdArgs == {1, 2, 3}

\* syncCompany(companyId) up to its first request.
syncCompany(id) ==
  /\ opArg' = id
  /\ opKind' = "company"
  /\ IF ~LocalCompany(id).present
       THEN /\ summary' = FailureSummary(<<"Company not found", id>>)
            /\ opPc' = "done"
       ELSE /\ summary' = summary
            /\ opPc' = "companySearch"

CallSyncCompany ==
  /\ opPc = "idle"
  /\ wrPc = "idle"
  /\ \E id \in CompanyIdArgs : syncCompany(id)
  /\ UNCHANGED <<swVars, wrVars, log, companyId, companyResult, dealId, warnings,
                 opErrors, dealResult, storeVars, foundId, bulkVars, dedupVars>>

\* geologicalStaffSize.toString() and recentPermitsCount.toString() throw a
\* TypeError on a company that lacks the number.
CompanyDataThrows(company) ==
  company.geologicalStaffSize = Undefined \/ company.recentPermitsCount = Undefined

\* hubspotData of syncCompany.
SyncCompanyData(company) ==
  [name |-> company.name,
   industry |-> "Oil & Gas",
   state |-> company.state,
   numberofemployees |-> IF company.size = "Small" THEN "1-10"
                         ELSE IF company.size = "Medium" THEN "11-50" ELSE "51-200",
   primary_formation |-> company.primaryFormation,
   drilling_activity_level |-> company.drillingActivityLevel,
   geological_staff_size |-> company.geologicalStaffSize,
   recent_permits_count |-> company.recentPermitsCount,
   last_permit_date |-> company.lastPermitDate,
   status |-> company.status]

\* searchCompanyByName(company.name), hubspotData, then update or create.
CompanySearch ==
  /\ opPc = "companySearch"
  /\ \E answer \in SearchAnswers :
       LET company == LocalCompany(opArg) IN
       /\ log' = Append(log, SearchRequest("companies", "name", company.name, answer))
       /\ IF ~answer.ok
            THEN /\ OuterCatch(<<"search failed">>)
                 /\ UNCHANGED <<swVars, wrVars>>
            ELSE IF CompanyDataThrows(company)
            THEN /\ OuterCatch(<<"TypeError">>)
                 /\ UNCHANGED <<swVars, wrVars>>
            ELSE /\ summary' = summary
                 /\ opPc' = "companySync"
                 /\ IF Found(answer)
                      THEN updateCompanyWithFallback(answer.id, SyncCompanyData(company))
                      ELSE createCompanyWithFallback(SyncCompanyData(company))
  /\ UNCHANGED <<opKind, opArg, companyId, companyResult, dealId, warnings, opErrors,
                 dealResult, storeVars, foundId, bulkVars, dedupVars>>

\* The summary syncCompany and syncContact return.
RecordSummary(r, id) ==
  [success |-> r.success, hubspotId |-> id,
   warnings |-> FieldsWarning(r, "Some data stored as notes due to field restrictions"),
   errors |-> r.errors]

\* The company write has returned: the summary is built from its result.
CompanySynced ==
  /\ opPc = "companySync"
  /\ wrPc = "done"
  /\ summary' = RecordSummary(result, result.id)
  /\ opPc' = "done"
  /\ wrPc' = "idle"
  /\ UNCHANGED <<swVars, wrKind, hubspotId, log, opKind, opArg, companyId,
                 companyResult, dealId, warnings, opErrors, dealResult, storeVars,
                 foundId, bulkVars, dedupVars>>

\* ------------------------------------------------------------ syncContact
\* contactStore.contacts.find(c => c.id === contactId).  expertise is the
\* array joined by ', ', or Undefined when the contact has no array.
LocalContact(id) ==
  IF id = 1 THEN
    [present |-> TRUE, name |-> <<"Ann", "Lee">>, title |-> "VP Exploration",
     email |-> "vp@x.com", phone |-> Undefined, expertise |-> "seismic",
     yearsExperience |-> Undefined, education |-> Undefined,
     lastContactDate |-> Undefined, companyId |-> 1]
  ELSE IF id = 2 THEN
    [present |-> TRUE, name |-> <<"Bob">>, title |-> "Geologist",
     email |-> "g@x.com", phone |-> Undefined, expertise |-> "",
     yearsExperience |-> Undefined, education |-> Undefined,
     lastContactDate |-> Undefined, companyId |-> 9]
  ELSE IF id = 3 THEN
    [present |-> TRUE, name |-> <<"Cy">>, title |-> "Geologist",
     email |-> "c@x.com", phone |-> Undefined, expertise |-> Undefined,
     yearsExperience |-> Undefined, education |-> Undefined,
     lastContactDate |-> Undefined, companyId |-> 1]
  ELSE [present |-> FALSE]

\* Contact ids a caller passes: the contacts of the store and one unknown id.
ContactIdArgs == {1, 2, 3, 4}

\* syncContact(contactId) up to its first request.
syncContact(id) ==
  /\ opArg' = id
  /\ opKind' = "contact"
  /\ IF ~LocalContact(id).present
       THEN /\ summary' = FailureSummary(<<"Contact not found", id>>)
            /\ opPc' = "done"
       ELSE /\ summary' = summary
            /\ opPc' = "contactSearch"

CallSyncContact ==
  /\ opPc = "idle"
  /\ wrPc = "idle"
  /\ \E id \in ContactIdArgs : syncContact(id)
  /\ UNCHANGED <<swVars, wrVars, log, companyId, companyResult, dealId, warnings,
                 opErrors, dealResult, storeVars, foundId, bulkVars, dedupVars>>

\* contact.expertise.join(', ') throws a TypeError without the array.
ContactDataThrows(contact) == contact.expertise = Undefined

\* hubspotData of syncContact (names of at most two words).
SyncContactData(contact) ==
  LET nameParts == contact.name
      company   == LocalCompany(contact.companyId)
  IN  [email |-> contact.email,
       firstname |-> IF Len(nameParts) >= 1 THEN nameParts[1] ELSE "",
       lastname |-> IF Len(nameParts) >= 2 THEN nameParts[2] ELSE "",
       jobtitle |-> contact.title,
       phone |-> contact.phone,
       company |-> IF company.present THEN OrElse(company.name, "") ELSE "",
       hs_lead_status |-> "NEW",
       geological_expertise |-> contact.expertise,
       years_experience |-> contact.yearsExperience,
       education |-> contact.education,
       last_contact_date |-> contact.lastContactDate]

\* searchContactByEmail(contact.email), hubspotData, then update or create.
ContactSearch ==
  /\ opPc = "contactSearch"
  /\ \E answer \in SearchAnswers :
       LET contact == LocalContact(opArg) IN
       /\ log' = Append(log, SearchRequest("contacts", "email", contact.email, answer))
       /\ IF ~answer.ok
            THEN /\ OuterCatch(<<"search failed">>)
                 /\ UNCHANGED <<swVars, wrVars, foundId>>
            ELSE IF ContactDataThrows(contact)
            THEN /\ OuterCatch(<<"TypeError">>)
                 /\ UNCHANGED <<swVars, wrVars, foundId>>
            ELSE /\ summary' = summary
                 /\ opPc' = "contactSync"
                 /\ foundId' = answer.id
                 /\ IF Found(answer)
                      THEN updateContactWithFallback(answer.id, SyncContactData(contact))
                      ELSE createContactWithFallback(SyncContactData(contact))
  /\ UNCHANGED <<opKind, opArg, companyId, companyResult, dealId, warnings, opErrors,
                 dealResult, storeVars, bulkVars, dedupVars>>

\* let contactHubSpotId: the id found, or result.id! of the create.
ContactHubSpotId == IF wrKind = "update" THEN foundId ELSE result.id

\* The contact write has returned: a created contact of a known company is
\* associated; otherwise the summary is returned.
ContactSynced ==
  /\ opPc = "contactSync"
  /\ wrPc = "done"
  /\ wrPc' = "idle"
  /\ IF wrKind = "create" /\ LocalCompany(LocalContact(opArg).companyId).present
       THEN /\ opPc' = "contactSearchCompany"
            /\ summary' = summary
       ELSE /\ opPc' = "done"
            /\ summary' = RecordSummary(result, ContactHubSpotId)
  /\ UNCHANGED <<swVars, wrKind, hubspotId, log, opKind, opArg, companyId,
                 companyResult, dealId, warnings, opErrors, dealResult, storeVars,
                 foundId, bulkVars, dedupVars>>

\* searchCompanyByName(company.name) inside the association try: a throw is
\* caught there and only noted in the store's sync status.
ContactSearchCompany ==
  /\ opPc = "contactSearchCompany"
  /\ \E answer \in SearchAnswers :
       LET company == LocalCompany(LocalContact(opArg).companyId) IN
       /\ log' = Append(log, SearchRequest("companies", "name", company.name, answer))
       /\ foundId' = answer.id
       /\ IF Found(answer)
            THEN /\ opPc' = "contactAssociate"
                 /\ summary' = summary
            ELSE /\ opPc' = "done"
                 /\ summary' = RecordSummary(result, ContactHubSpotId)
  /\ UNCHANGED <<swVars, wrVars, opKind, opArg, companyId, companyResult, dealId,
                 warnings, opErrors, dealResult, storeVars, bulkVars, dedupVars>>

\* associateContactWithCompany(contactHubSpotId, existingCompany.results[0].id).
ContactAssociate ==
  /\ opPc = "contactAssociate"
  /\ \E ok \in BOOLEAN :
       log' = Append(log, AssociationRequest("contact_to_company", ContactHubSpotId,
                                             foundId, ok))
  /\ summary' = RecordSummary(result, ContactHubSpotId)
  /\ opPc' = "done"
  /\ UNCHANGED <<swVars, wrVars, opKind, opArg, companyId, companyResult, dealId,
                 warnings, opErrors, dealResult, storeVars, foundId, bulkVars, dedupVars>>

\* ------------------------------------------- the store's operations, alone
InitOrchestration ==
  /\ endpoint = "companies"
  /\ method = "POST"
  /\ allProperties = EmptyObject
  /\ coreFields = <<>>
  /\ swPc = "idle"
  /\ failedFields = EmptyObject
  /\ errors = <<>>
  /\ recordId = NoId
  /\ sweepIdx = 1
  /\ result = NoResult
  /\ wrPc = "idle"
  /\ wrKind = "create"
  /\ hubspotId = NoId
  /\ log = <<>>
  /\ InitOp
  /\ leadStore = [l \in {1, 101, 102} |-> [synced |-> FALSE, hubSpotId |-> NoId]]
  /\ totalSynced = 0
  /\ isSyncing = FALSE
  /\ InitBulk
  /\ InitDedupIdle

NextOrchestration ==
  \/ CallSyncLead
  \/ LeadSearchCompany
  \/ LeadCompanySynced
  \/ LeadSearchContact
  \/ LeadContactSynced
  \/ LeadAssociate
  \/ LeadNote
  \/ CallCreateDealFromPermit
  \/ DealCreate
  \/ DealSearchCompany
  \/ DealAssocCompany
  \/ DealSearchContact
  \/ DealAssocContact
  \/ DealNote
  \/ CallCreateDealFromPermitWithFallback
  \/ DfCreate
  \/ DfNote
  \/ DfSearchCompany
  \/ DfCompanySynced
  \/ DfAssociate
  \/ CallSyncCompany
  \/ CompanySearch
  \/ CompanySynced
  \/ CallSyncContact
  \/ ContactSearch
  \/ ContactSynced
  \/ ContactSearchCompany
  \/ ContactAssociate
  \/ SyncStep

SpecOrchestration == InitOrchestration /\ [][NextOrchestration]_vars

\* ===================================================================
\* BulkSyncButton: performBulkSync over the store's syncLeadToHubSpot
\* ===================================================================
MaxLeads == 2

Event(e, leadId, success) == [e |-> e, lead |-> leadId, success |-> success]

\* The frame of a finished syncLeadToHubSpot call is gone: its locals, the
\* wrapper's and syncWithFallback's are back to their values before a call.
DiscardCall ==
  /\ endpoint' = "companies"
  /\ method' = "POST"
  /\ allProperties' = EmptyObject
  /\ coreFields' = <<>>
  /\ swPc' = "idle"
  /\ failedFields' = EmptyObject
  /\ errors' = <<>>
  /\ recordId' = NoId
  /\ sweepIdx' = 1
  /\ result' = NoResult
  /\ wrPc' = "idle"
  /\ wrKind' = "create"
  /\ hubspotId' = NoId
  /\ log' = <<>>
  /\ opPc' = "idle"
  /\ opKind' = "none"
  /\ opArg' = NoId
  /\ companyId' = NoId
  /\ companyResult' = NoResult
  /\ dealId' = NoId
  /\ foundId' = NoId
  /\ warnings' = <<>>
  /\ opErrors' = <<>>
  /\ summary' = NoSummary
  /\ dealResult' = NoResult

\* How the body of the inner try classifies a returned summary.  The simple
\* button tests the summary object itself, which is always truthy.
Outcome(variant, r) ==
  IF variant = "simple" THEN "ok"
  ELSE IF r.success
         THEN IF Len(r.warnings) > 0 THEN "warnings" ELSE "ok"
         ELSE "failed"

\* successful++ / failed++ / warnings++ and details.push(...); kind "threw"
\* is the inner catch.
Tally(kind) ==
  /\ successful' = successful + (IF kind \in {"ok", "warnings"} THEN 1 ELSE 0)
  /\ failed' = failed + (IF kind \in {"failed", "threw"} THEN 1 ELSE 0)
  /\ warned' = warned + (IF kind = "warnings" THEN 1 ELSE 0)
  /\ details' = IF bulkVariant = "detailed"
                  THEN Append(details, <<bulkLeads[bulkIdx], kind>>)
                  ELSE details

\* { successful, failed, warnings, total } resp. { successful, failed, total }
Results(s, f, w) ==
  IF bulkVariant = "detailed"
    THEN [successful |-> s, failed |-> f, warnings |-> w, total |-> Len(bulkLeads)]
    ELSE [successful |-> s, failed |-> f, total |-> Len(bulkLeads)]

\* (mutant) the loop ends at the first lead that did not sync.
AfterLead_StopOnFailure ==
  IF bulkIdx < Len(bulkLeads) /\ failed' = failed
    THEN /\ bulkPc' = "pause"
         /\ UNCHANGED <<finalResults, syncing>>
    ELSE /\ bulkPc' = "finished"
         /\ finalResults' = Append(finalResults, Results(successful', failed', warned'))
         /\ syncing' = FALSE

\* After the inner try: the pause when a lead is left, else the report to
\* onSyncComplete and the finally block.
AfterLead ==
  IF bulkIdx < Len(bulkLeads)
    THEN /\ bulkPc' = "pause"
         /\ UNCHANGED <<finalResults, syncing>>
    ELSE /\ bulkPc' = "finished"
         /\ finalResults' = Append(finalResults, Results(successful', failed', warned'))
         /\ syncing' = FALSE

\* The leads prop: leads of the store, in list order.
BulkLeadLists == {[i \in 1..n |-> i] : n \in 1..MaxLeads}

\* performBulkSync up to the loop (handleBulkSync returns on an empty list).
StartBulkSync ==
  /\ bulkPc = "idle"
  /\ ~syncing
  /\ \E variant \in {"detailed", "simple"}, leads \in BulkLeadLists :
       /\ bulkVariant' = variant
       /\ bulkLeads' = leads
  /\ syncing' = TRUE
  /\ successful' = 0
  /\ failed' = 0
  /\ warned' = 0
  /\ details' = <<>>
  /\ bulkIdx' = 1
  /\ bulkPc' = "call"
  /\ UNCHANGED <<swVars, wrVars, log, opVars, storeVars, finalResults, trace, dedupVars>>

\* (mutant) the call is not awaited: the loop goes on while it is in flight.
AfterCall_NotAwaited == IF bulkIdx < Len(bulkLeads) THEN "pause" ELSE "await"

\* `await`: the loop is suspended until the call has settled.
AfterCall == "await"

\* `await syncLeadToHubSpot(lead.id)`: the call is made and is in flight.
BulkCallSync ==
  /\ bulkPc = "call"
  /\ syncLeadToHubSpot(bulkLeads[bulkIdx])
  /\ trace' = Append(trace, Event("call", bulkLeads[bulkIdx], FALSE))
  /\ bulkPc' = AfterCall
  /\ UNCHANGED <<swVars, wrVars, log, companyId, companyResult, dealId, foundId,
                 warnings, opErrors, dealResult, storeVars, bulkVariant, bulkLeads,
                 bulkIdx, successful, failed, warned, details, finalResults, syncing, dedupVars>>

\* The awaited call rejects: the inner catch counts the lead as failed.
BulkSyncThrows ==
  /\ bulkPc = "call"
  /\ trace' = trace \o <<Event("call", bulkLeads[bulkIdx], FALSE),
                         Event("throw", bulkLeads[bulkIdx], FALSE)>>
  /\ Tally("threw")
  /\ AfterLead
  /\ UNCHANGED <<swVars, wrVars, log, opVars, storeVars, bulkVariant, bulkLeads,
                 bulkIdx, dedupVars>>

\* The awaited call returns its summary.
BulkSyncReturned ==
  /\ bulkPc = "await"
  /\ opPc = "done"
  /\ trace' = Append(trace, Event("return", bulkLeads[bulkIdx], summary.success))
  /\ Tally(Outcome(bulkVariant, summary))
  /\ AfterLead
  /\ DiscardCall
  /\ UNCHANGED <<storeVars, bulkVariant, bulkLeads, bulkIdx, dedupVars>>

\* `await new Promise(resolve => setTimeout(resolve, 500))`, then i++.
BulkPause ==
  /\ bulkPc = "pause"
  /\ trace' = Append(trace, Event("pause", NoId, FALSE))
  /\ bulkIdx' = bulkIdx + 1
  /\ bulkPc' = "call"
  /\ UNCHANGED <<swVars, wrVars, log, opVars, storeVars, bulkVariant, bulkLeads,
                 successful, failed, warned, details, finalResults, syncing, dedupVars>>

InitBulkRun ==
  /\ endpoint = "companies"
  /\ method = "POST"
  /\ allProperties = EmptyObject
  /\ coreFields = <<>>
  /\ swPc = "idle"
  /\ failedFields = EmptyObject
  /\ errors = <<>>
  /\ recordId = NoId
  /\ sweepIdx = 1
  /\ result = NoResult
  /\ wrPc = "idle"
  /\ wrKind = "create"
  /\ hubspotId = NoId
  /\ log = <<>>
  /\ InitOp
  /\ leadStore = [l \in 1..MaxLeads |-> [synced |-> FALSE, hubSpotId |-> NoId]]
  /\ totalSynced = 0
  /\ isSyncing = FALSE
  /\ InitBulk
  /\ InitDedupIdle

NextBulk ==
  \/ StartBulkSync
  \/ BulkCallSync
  \/ BulkSyncThrows
  \/ BulkSyncReturned
  \/ BulkPause
  \/ LeadSearchCompany
  \/ LeadCompanySynced
  \/ LeadNote
  \/ SyncStep

SpecBulk == InitBulkRun /\ [][NextBulk]_vars

\* ------------------------------------- a call for a record that is absent
\* `if (!lead)`, `if (!company)`, `if (!contact)`, `if (!permit)`: the record
\* the call names is not in its local store.
AbsentRecord ==
  \/ opKind = "lead" /\ opArg \notin DOMAIN leadStore
  \/ opKind = "company" /\ ~LocalCompany(opArg).present
  \/ opKind = "contact" /\ ~LocalContact(opArg).present
  \/ opKind = "deal" /\ opArg \notin LocalPermits

\* The early `return { success: false, errors: [error], warnings: [] }` hands
\* the summary to the caller, who remembers it and may make another call.
ReturnNotFound ==
  /\ opPc = "done"
  /\ AbsentRecord
  /\ trace' = <<Event(opKind, opArg, summary.success)>>
  /\ DiscardCall
  /\ UNCHANGED <<storeVars, bulkPc, bulkVariant, bulkLeads, bulkIdx, successful,
                 failed, warned, details, finalResults, syncing, dedupVars>>

NextCalls ==
  \/ NextOrchestration
  \/ ReturnNotFound

SpecCalls == InitOrchestration /\ [][NextCalls]_vars

\* ===================================================================
\* useHubSpotStore: syncAllCompanies and syncAllContacts
\* ===================================================================
\* In these runs bulkVariant is "companies" or "contacts", bulkLeads holds the
\* ids of the records of the store in list order and bulkIdx is the position
\* of the for-of loop.
\* companyStore.companies / contactStore.contacts, as ids in list order.
StoreItems(kind) == IF kind = "companies" THEN <<1, 2>> ELSE <<1, 2, 3>>

\* setSyncing(true), the clears, and the store read before the loop.
StartSyncAll ==
  /\ bulkPc = "idle"
  /\ \E kind \in {"companies", "contacts"} :
       /\ bulkVariant' = kind
       /\ bulkLeads' = StoreItems(kind)
  /\ isSyncing' = TRUE
  /\ bulkIdx' = 1
  /\ bulkPc' = "allCall"
  /\ UNCHANGED <<swVars, wrVars, log, opVars, leadStore, totalSynced, successful,
                 failed, warned, details, finalResults, syncing, trace, dedupVars>>

\* `await get().syncCompany(company.id)` / `await get().syncContact(contact.id)`
SyncAllCall ==
  /\ bulkPc = "allCall"
  /\ IF bulkVariant = "companies"
       THEN syncCompany(bulkLeads[bulkIdx])
       ELSE syncContact(bulkLeads[bulkIdx])
  /\ trace' = Append(trace, Event("call", bulkLeads[bulkIdx], FALSE))
  /\ bulkPc' = "allAwait"
  /\ UNCHANGED <<swVars, wrVars, log, companyId, companyResult, dealId, foundId,
                 warnings, opErrors, dealResult, storeVars, bulkVariant, bulkLeads,
                 bulkIdx, successful, failed, warned, details, finalResults, syncing,
                 dedupVars>>

\* The step after an item's sync has settled.
\* (mutant) the delay is left out: the loop goes straight to the next item.
AfterItem_NoDelay == IF bulkIdx < Len(bulkLeads) THEN "allNext" ELSE "allPause"

AfterItem == "allPause"

\* The awaited call has returned; its summary is dropped.
SyncAllReturned ==
  /\ bulkPc = "allAwait"
  /\ opPc = "done"
  /\ trace' = Append(trace, Event("return", bulkLeads[bulkIdx], summary.success))
  /\ bulkPc' = AfterItem
  /\ DiscardCall
  /\ UNCHANGED <<storeVars, bulkVariant, bulkLeads, bulkIdx, successful, failed,
                 warned, details, finalResults, syncing, dedupVars>>

\* The for-of loop has another item.
\* (mutant) the loop ends at the first item whose sync failed.
MoreItems_UntilFailure ==
  /\ bulkIdx < Len(bulkLeads)
  /\ \E k \in 1..Len(trace) :
       /\ trace[k].e = "return"
       /\ trace[k].success
       /\ \A j \in (k + 1)..Len(trace) : trace[j].e # "return"

MoreItems == bulkIdx < Len(bulkLeads)

\* `await new Promise(resolve => setTimeout(resolve, 500))`
SyncAllPause ==
  /\ bulkPc = "allPause"
  /\ trace' = Append(trace, Event("pause", NoId, FALSE))
  /\ bulkPc' = "allNext"
  /\ UNCHANGED <<swVars, wrVars, log, opVars, storeVars, bulkVariant, bulkLeads,
                 bulkIdx, successful, failed, warned, details, finalResults, syncing,
                 dedupVars>>

\* The loop head: the next item, or after the last one
\* `set({ syncStatus: { ..., lastSync, isSyncing: false } })`.
SyncAllNext ==
  /\ bulkPc = "allNext"
  /\ IF MoreItems
       THEN /\ bulkIdx' = bulkIdx + 1
            /\ bulkPc' = "allCall"
            /\ isSyncing' = isSyncing
       ELSE /\ bulkIdx' = bulkIdx
            /\ bulkPc' = "finished"
            /\ isSyncing' = FALSE
  /\ UNCHANGED <<swVars, wrVars, log, opVars, leadStore, totalSynced, bulkVariant,
                 bulkLeads, successful, failed, warned, details, finalResults, syncing,
                 trace, dedupVars>>

\* The bulk runs of the application: the buttons over leads and the store's
\* runs over companies and contacts.
NextRuns ==
  \/ StartBulkSync
  \/ BulkCallSync
  \/ BulkSyncThrows
  \/ BulkSyncReturned
  \/ BulkPause
  \/ LeadSearchCompany
  \/ LeadCompanySynced
  \/ LeadNote
  \/ StartSyncAll
  \/ SyncAllCall
  \/ SyncAllReturned
  \/ SyncAllPause
  \/ SyncAllNext
  \/ CompanySearch
  \/ CompanySynced
  \/ ContactSearch
  \/ ContactSynced
  \/ ContactSearchCompany
  \/ ContactAssociate
  \/ SyncStep

SpecRuns == InitBulkRun /\ [][NextRuns]_vars

\* ===================================================================
\* useLeadSourcingStore: the leads and syncStatus.totalSynced
\* ===================================================================
\* The leads are kept by id; a lead is its syncedToHubSpot flag and hubSpotId.
MaxSynced == 3

LeadValues == [synced : BOOLEAN, hubSpotId : RemoteIds \cup {NoId}]

\* results.filter(l => l.syncedToHubSpot).length
SyncedCount(leads) == Cardinality({l \in DOMAIN leads : leads[l].synced})

\* searchLeadsByState, the set() after the search: the results replace the
\* leads; searchOilGasCompanies builds every lead with syncedToHubSpot: false.
SearchLeadsByState ==
  /\ \E n \in 0..MaxLeads :
       LET found == [l \in 1..n |-> [synced |-> FALSE, hubSpotId |-> NoId]] IN
       /\ leadStore' = found
       /\ totalSynced' = SyncedCount(found)
  /\ UNCHANGED <<swVars, wrVars, log, opVars, isSyncing, bulkVars, dedupVars>>

\* addLead(lead): leads: [...state.leads, lead]; totalSynced is kept.  The
\* lead has an id the store does not hold yet.
AddLead ==
  /\ \E id \in (1..MaxLeads) \ DOMAIN leadStore, lead \in LeadValues :
       leadStore' = [l \in DOMAIN leadStore \cup {id} |->
                       IF l = id THEN lead ELSE leadStore[l]]
  /\ UNCHANGED <<swVars, wrVars, log, opVars, totalSynced, isSyncing, bulkVars,
                 dedupVars>>

\* updateLead(updatedLead): the lead with that id is replaced.
UpdateLead ==
  /\ \E id \in 1..MaxLeads, lead \in LeadValues :
       leadStore' = [l \in DOMAIN leadStore |->
                       IF l = id THEN lead ELSE leadStore[l]]
  /\ UNCHANGED <<swVars, wrVars, log, opVars, totalSynced, isSyncing, bulkVars,
                 dedupVars>>

\* clearLeads()
ClearLeads ==
  /\ leadStore' = EmptyObject
  /\ totalSynced' = 0
  /\ UNCHANGED <<swVars, wrVars, log, opVars, isSyncing, bulkVars, dedupVars>>

\* markAsSynced(leadId, hubSpotId), for a lead of the store or an unknown id.
MarkAsSynced ==
  /\ totalSynced < MaxSynced
  /\ \E leadId \in 1..(MaxLeads + 1), id \in RemoteIds :
       markAsSynced(leadId, id)
  /\ UNCHANGED <<swVars, wrVars, log, opVars, isSyncing, bulkVars, dedupVars>>

NextLeadStore ==
  \/ SearchLeadsByState
  \/ AddLead
  \/ UpdateLead
  \/ ClearLeads
  \/ MarkAsSynced

SpecLeadStore == InitService /\ [][NextLeadStore]_vars

\* ===================================================================
\* Search results: deduplicateResults
\* ===================================================================
\* Texts are sequences: a phone is its sequence of characters, a title its
\* sequence of words, a link its scheme, host labels and path.  A field holds
\* `result.field || ''`: the empty text stands for a missing field too.
Digits == {"0", "1", "2", "3", "4", "5", "6", "7", "8", "9"}

\* (mutant) the country code of an 11-digit number is kept.
normalizePhone_KeepCountryCode(phone) ==
  IF phone = <<>> THEN <<>>
  ELSE SelectSeq(phone, LAMBDA c : c \in Digits)

\* normalizePhone: the digits, without the leading 1 of an 11-digit number.
normalizePhone(phone) ==
  IF phone = <<>> THEN <<>>
  ELSE LET digits == SelectSeq(phone, LAMBDA c : c \in Digits)
       IN  IF Len(digits) = 10 THEN digits
           ELSE IF Len(digits) = 11 /\ digits[1] = "1" THEN Tail(digits)
           ELSE digits

\* toLowerCase() of the words and host labels that occur.
LowerCase(w) ==
  CASE w \in {"Acme", "ACME"} -> "acme"
    [] w = "Beta" -> "beta"
    [] w = "Oil" -> "oil"
    [] w \in {"Inc.", "Inc"} -> IF w = "Inc." THEN "inc." ELSE "inc"
    [] w = "LLC" -> "llc"
    [] w \in {"Co", "Co."} -> IF w = "Co." THEN "co." ELSE "co"
    [] w = "WWW" -> "www"
    [] OTHER -> w

\* replace(/[^\w\s]/g, '') on a lower-case word.
WordChars(w) ==
  CASE w = "inc." -> "inc"
    [] w = "co." -> "co"
    [] w = "&" -> ""
    [] OTHER -> w

CompanySuffixes ==
  {"inc", "llc", "corp", "corporation", "company", "co", "ltd", "limited"}

RECURSIVE TrimWords(_)
\* trim(): the blanks left at both ends go, those inside stay.
TrimWords(ws) ==
  IF ws = <<>> THEN <<>>
  ELSE IF ws[1] = "" THEN TrimWords(Tail(ws))
  ELSE IF ws[Len(ws)] = "" THEN TrimWords(SubSeq(ws, 1, Len(ws) - 1))
  ELSE ws

\* normalizeCompanyName: lower case, special characters and the common
\* suffix words removed (a removed word leaves its place empty), trimmed.
normalizeCompanyName(title) ==
  LET word(k) == WordChars(LowerCase(title[k]))
  IN  TrimWords([k \in 1..Len(title) |->
                   IF word(k) \in CompanySuffixes THEN "" ELSE word(k)])

\* A link without scheme whose text begins with 'http' gets no 'https://'
\* prefix; new URL() then throws on it.
StartsWithHttp(label) == label \in {"httpbin", "http"}

\* extractDomain: the lower-case host name without a leading 'www.'; '' for
\* no link and for one that new URL() rejects.
extractDomain(link) ==
  IF link.host = <<>> THEN <<>>
  ELSE IF link.scheme = "" /\ StartsWithHttp(link.host[1]) THEN <<>>
  ELSE LET host == [k \in 1..Len(link.host) |-> LowerCase(link.host[k])]
       IN  IF Len(host) > 1 /\ host[1] = "www" THEN Tail(host) ELSE host

\* (mutant) the domain is looked at before the phone.
generateDeduplicationKey_DomainFirst(r) ==
  LET name   == normalizeCompanyName(r.title)
      domain == extractDomain(r.link)
      phone  == normalizePhone(r.phone)
  IN  IF domain # <<>> THEN <<"domain", domain>>
      ELSE IF phone # <<>> THEN <<"phone", phone>>
      ELSE IF name # <<>> THEN <<"name", name>>
      ELSE <<"combined", name, domain, phone>>

\* generateDeduplicationKey: `phone:`, else `domain:`, else `name:`, else
\* the combined key of three empty parts.
generateDeduplicationKey(r) ==
  LET name   == normalizeCompanyName(r.title)
      domain == extractDomain(r.link)
      phone  == normalizePhone(r.phone)
  IN  IF phone # <<>> THEN <<"phone", phone>>
      ELSE IF domain # <<>> THEN <<"domain", domain>>
      ELSE IF name # <<>> THEN <<"name", name>>
      ELSE <<"combined", name, domain, phone>>

\* (mutant) a repeated key is forgotten again, so a third result passes.
SeenAfter_Toggled(seen, key) ==
  IF key \in seen THEN seen \ {key} ELSE seen \cup {key}

\* `if (!seen.has(key)) { seen.add(key); ... }`
SeenAfter(seen, key) == IF key \in seen THEN seen ELSE seen \cup {key}

\* (mutant) a new result is put in front of the list.
Pushed_InFront(acc, r, isSeen) == IF isSeen THEN acc ELSE <<r>> \o acc

\* `if (!seen.has(key)) { ...; deduplicated.push(result); }`
Pushed(acc, r, isSeen) == IF isSeen THEN acc ELSE Append(acc, r)

RECURSIVE DedupLoop(_, _, _, _)
\* The for loop of deduplicateResults from position i on.
DedupLoop(xs, i, seen, acc) ==
  IF i > Len(xs) THEN acc
  ELSE LET key == generateDeduplicationKey(xs[i])
       IN  DedupLoop(xs, i + 1, SeenAfter(seen, key), Pushed(acc, xs[i], key \in seen))

deduplicateResults(xs) == DedupLoop(xs, 1, {}, <<>>)

\* ------------------------------------------------------ results to feed it
NoLink == [scheme |-> "", host |-> <<>>, path |-> ""]
Link(scheme, host, path) == [scheme |-> scheme, host |-> host, path |-> path]
RawResult(title, link, phone) == [title |-> title, link |-> link, phone |-> phone]

Phone405 == <<"(", "4", "0", "5", ")", " ", "5", "5", "5", "-", "0", "1", "0", "0">>
Phone1405 == <<"1", "-", "4", "0", "5", "-", "5", "5", "5", "-", "0", "1", "0", "0">>
Phone2405 == <<"2", "-", "4", "0", "5", "-", "5", "5", "5", "-", "0", "1", "0", "0">>
PhoneLocal == <<"5", "5", "5", "-", "0", "1", "0", "0">>
PhoneText == <<"n", "/", "a">>

\* Raw results as the search returns them: shared phones, shared domains with
\* and without a phone, short and long phones, names that differ by a suffix,
\* and results without any usable field.
SampleResults ==
  << RawResult(<<"Acme", "Inc.">>, Link("https://", <<"www", "Acme", "com">>, "/about"),
               Phone405),
     RawResult(<<"Acme", "Oil">>, Link("https://", <<"beta", "com">>, ""), Phone1405),
     RawResult(<<"ACME">>, Link("", <<"acme", "com">>, ""), <<>>),
     RawResult(<<"Acme", "LLC">>, Link("http://", <<"ACME", "com">>, "/x"), <<>>),
     RawResult(<<"Beta", "Co">>, NoLink, PhoneLocal),
     RawResult(<<"Beta">>, NoLink, PhoneText),
     RawResult(<<"Beta", "Co.">>, NoLink, <<>>),
     RawResult(<<"Oil">>, Link("", <<"acme", "com">>, ""), Phone2405),
     RawResult(<<>>, Link("", <<"httpbin", "org">>, ""), <<>>),
     RawResult(<<"&">>, NoLink, <<>>) >>

MaxResults == 3

\* The result lists a search can hand over: up to MaxResults results.
ResultLists ==
  UNION {[1..n -> Range(SampleResults)] : n \in 0..MaxResults}

InitDedup ==
  /\ endpoint = "companies"
  /\ method = "POST"
  /\ allProperties = EmptyObject
  /\ coreFields = <<>>
  /\ swPc = "idle"
  /\ failedFields = EmptyObject
  /\ errors = <<>>
  /\ recordId = NoId
  /\ sweepIdx = 1
  /\ result = NoResult
  /\ wrPc = "idle"
  /\ wrKind = "create"
  /\ hubspotId = NoId
  /\ log = <<>>
  /\ InitOp
  /\ leadStore = EmptyObject
  /\ totalSynced = 0
  /\ isSyncing = FALSE
  /\ InitBulk
  /\ dedupPc = "ready"
  /\ results \in ResultLists
  /\ deduplicated = <<>>
  /\ deduplicatedAgain = <<>>

\* const deduplicatedResults = deduplicateResults(allResults)
Deduplicate ==
  /\ dedupPc = "ready"
  /\ deduplicated' = deduplicateResults(results)
  /\ dedupPc' = "once"
  /\ UNCHANGED <<swVars, wrVars, log, opVars, storeVars, bulkVars, results,
                 deduplicatedAgain>>

\* deduplicateResults applied to a list it returned.
DeduplicateAgain ==
  /\ dedupPc = "once"
  /\ deduplicatedAgain' = deduplicateResults(deduplicated)
  /\ dedupPc' = "twice"
  /\ UNCHANGED <<swVars, wrVars, log, opVars, storeVars, bulkVars, results,
                 deduplicated>>

NextDedup ==
  \/ Deduplicate
  \/ DeduplicateAgain

SpecDedup == InitDedup /\ [][NextDedup]_vars

\* ===================================================================
\* Properties of syncWithFallback and its wrappers (SpecService)
\* ===================================================================
\* syncWithFallback has handed its result to the caller.
Returned == swPc = "returned"

\* The properties the caller wants written: keys with a defined value.
Desired == {f \in DOMAIN allProperties : allProperties[f] # Undefined}
CoreSet == Range(coreFields)
NonCoreDesired == Desired \ CoreSet
OtherCoreDesired == (CoreSet \ {coreFields[1]}) \cap Desired

CoreWriteAccepted == Len(log) >= 1 /\ log[1].kind = "core" /\ log[1].ok
CoreWriteRejected == Len(log) >= 1 /\ log[1].kind = "core" /\ ~log[1].ok
EssentialWriteAccepted ==
  Len(log) >= 2 /\ log[2].kind = "essential" /\ log[2].ok
EssentialWriteRejected ==
  Len(log) >= 2 /\ log[2].kind = "essential" /\ ~log[2].ok

\* Positions in the log of the individual updates of field f.
FieldRequests(f) ==
  {i \in 1..Len(log) : log[i].kind = "field" /\ DOMAIN log[i].props = {f}}
RejectedNonCore ==
  {f \in NonCoreDesired : \E i \in FieldRequests(f) : ~log[i].ok}
AcceptedNonCore ==
  {f \in NonCoreDesired : \E i \in FieldRequests(f) : log[i].ok}

\* C1: a result with success = true carries a defined record id, both as
\* returned by syncWithFallback and as returned by the public wrappers.
C1_SuccessHasId ==
  (swPc = "returned" \/ wrPc \in {"note", "done"})
    => (result.success => result.id \in RemoteIds)

C1_Witness ==
  /\ wrPc = "done"
  /\ wrKind = "create"
  /\ result.success
  /\ EssentialWriteAccepted

\* C2: when the core batch is accepted, the result is a success with the id of
\* that write and failedFields is exactly the rejected non-core desired
\* properties, each with its original value.
C2_CoreAccepted ==
  (Returned /\ CoreWriteAccepted) =>
    /\ result.success
    /\ result.id = log[1].rid
    /\ result.failedFields = [f \in RejectedNonCore |-> allProperties[f]]

C2_Witness ==
  /\ Returned
  /\ CoreWriteAccepted
  /\ RejectedNonCore # {}
  /\ AcceptedNonCore # {}

\* C3: core batch rejected, essential write accepted: success; the other core
\* fields are in failedFields and never written individually; the rest of
\* failedFields is exactly the rejected non-core fields.
C3_EssentialOnly ==
  (Returned /\ CoreWriteRejected /\ EssentialWriteAccepted) =>
    /\ result.success
    /\ DOMAIN result.failedFields = OtherCoreDesired \cup RejectedNonCore
    /\ \A f \in DOMAIN result.failedFields : result.failedFields[f] = allProperties[f]
    /\ \A f \in OtherCoreDesired :
         \A i \in 2..Len(log) : f \notin DOMAIN log[i].props

C3_Witness ==
  /\ Returned
  /\ CoreWriteRejected
  /\ EssentialWriteAccepted
  /\ Cardinality(OtherCoreDesired) >= 2
  /\ RejectedNonCore # {}
  /\ AcceptedNonCore # {}

\* C4: core batch and essential write both rejected: failure, failedFields is
\* the whole property object, two errors in order, and no further request.
C4_TotalFailure ==
  (CoreWriteRejected /\ EssentialWriteRejected) =>
    /\ ~result.success
    /\ result.failedFields = allProperties
    /\ result.errors = << <<"Core fields failed">>, <<"Essential field failed">> >>
    /\ Len(log) = 2

C4_Witness ==
  /\ wrPc = "done"
  /\ CoreWriteRejected
  /\ EssentialWriteRejected
  /\ NonCoreDesired # {}

\* C5 as stated: a failure is returned only after a rejected write of the
\* essential field.
C5_FailureOnlyAfterEssentialRejected ==
  (Returned /\ ~result.success) =>
    \E i \in 1..Len(log) : log[i].kind = "essential" /\ ~log[i].ok

\* The value of coreFields[0] is absent, undefined or ''.
EssentialMissing ==
  \/ coreFields[1] \notin DOMAIN allProperties
  \/ allProperties[coreFields[1]] \in {Undefined, ""}

\* C5 (amended): a failure is returned exactly when the core batch was rejected
\* and the essential write was rejected too or could not be tried because the
\* essential field has no value (then no essential write is sent).
C5_FailureCases ==
  Returned =>
    /\ ~result.success <=>
         (CoreWriteRejected /\ (EssentialWriteRejected \/ EssentialMissing))
    /\ EssentialMissing => \A i \in 1..Len(log) : log[i].kind # "essential"

C5_Witness ==
  /\ Returned
  /\ ~result.success
  /\ EssentialMissing
  /\ Len(log) = 1

\* C6: after a success every desired property was part of an accepted write
\* or is in failedFields with its original value.
C6_NothingDropped ==
  (Returned /\ result.success) =>
    \A f \in Desired :
      \/ \E i \in 1..Len(log) :
           /\ log[i].ok
           /\ log[i].kind \in {"core", "essential", "field"}
           /\ f \in DOMAIN log[i].props
           /\ log[i].props[f] = allProperties[f]
      \/ /\ f \in DOMAIN result.failedFields
         /\ result.failedFields[f] = allProperties[f]

C6_Witness ==
  /\ Returned
  /\ result.success
  /\ EssentialWriteAccepted
  /\ OtherCoreDesired # {}
  /\ \E f \in NonCoreDesired : allProperties[f] = ""
  /\ RejectedNonCore # {}

\* C7: every non-core desired property gets exactly one update, addressed to
\* the created record; a rejection records the field and one error naming it.
C7_SweepCoversAll ==
  (Returned /\ result.success) =>
    \A f \in NonCoreDesired :
      /\ Cardinality(FieldRequests(f)) = 1
      /\ \A i \in FieldRequests(f) :
           /\ log[i].method = "PATCH"
           /\ log[i].id = result.id
           /\ log[i].props[f] = allProperties[f]
           /\ ~log[i].ok <=> f \in DOMAIN result.failedFields
           /\ Cardinality({k \in 1..Len(result.errors) :
                             result.errors[k] = <<"Field failed", f>>})
                = (IF log[i].ok THEN 0 ELSE 1)

C7_Witness ==
  /\ Returned
  /\ result.success
  /\ Cardinality(RejectedNonCore) >= 2
  /\ \E i, j \in 1..Len(log) :
       /\ i < j
       /\ log[i].kind = "field" /\ ~log[i].ok
       /\ log[j].kind = "field" /\ log[j].ok

\* C8: an update of the sweep is sent only after an accepted core or essential
\* write, to the record that write returned; the result is returned only when
\* every non-core desired property has had its update answered.
C8_Ordering ==
  /\ \A i \in 1..Len(log) :
       log[i].kind = "field" =>
         \E j \in 1..(i - 1) :
           /\ log[j].kind \in {"core", "essential"}
           /\ log[j].ok
           /\ log[i].id = log[j].rid
  /\ (Returned /\ result.success) =>
       \A f \in NonCoreDesired : FieldRequests(f) # {}

C8_Witness ==
  /\ Returned
  /\ result.success
  /\ CoreWriteRejected
  /\ Cardinality({i \in 1..Len(log) : log[i].kind = "field"}) >= 2

\* ------------------------------------------------- orchestration properties
OpDone == opPc = "done"

\* A request of the relation `kind` was made and the store rejected it.
AssocRejected(kind) ==
  \E i \in 1..Len(log) :
    log[i].kind = "assoc" /\ log[i].obj = kind /\ ~log[i].ok

Count(seq, x) == Cardinality({k \in 1..Len(seq) : seq[k] = x})

\* Ids answered by an accepted create of the primary record of the call.
CompanyCreateIds ==
  {log[i].rid : i \in {j \in 1..Len(log) :
      /\ log[j].kind \in {"core", "essential"}
      /\ log[j].obj = "companies"
      /\ log[j].method = "POST"
      /\ log[j].ok}}
DealCreateIds ==
  {log[i].rid : i \in {j \in 1..Len(log) : log[j].kind = "deal" /\ log[j].ok}}

\* C9: when the primary record was created and a later association request is
\* rejected, the call still returns success = true with the id of the primary
\* record and exactly one warning for that association: contact-to-company in
\* syncLeadToHubSpot, deal-to-company and deal-to-contact in
\* createDealFromPermit, deal-to-company in createDealFromPermitWithFallback
\* (whose warnings travel in the `errors` of its result).
C9_AssociationIsolated ==
  OpDone =>
    /\ (opKind = "lead" /\ CompanyCreateIds # {}
          /\ AssocRejected("contact_to_company"))
         => /\ summary.success
            /\ summary.hubspotId \in CompanyCreateIds
            /\ Count(summary.warnings,
                     <<"Contact created but association failed">>) = 1
    /\ (opKind = "deal" /\ DealCreateIds # {} /\ AssocRejected("deal_to_company"))
         => /\ summary.success
            /\ summary.hubspotId \in DealCreateIds
            /\ Count(summary.warnings,
                     <<"Deal created but company association failed">>) = 1
    /\ (opKind = "deal" /\ DealCreateIds # {} /\ AssocRejected("deal_to_contact"))
         => /\ summary.success
            /\ summary.hubspotId \in DealCreateIds
            /\ Count(summary.warnings,
                     <<"Deal created but contact association failed">>) = 1
    /\ (opKind = "dealFallback" /\ DealCreateIds # {}
          /\ AssocRejected("deal_to_company"))
         => /\ dealResult.success
            /\ dealResult.id \in DealCreateIds
            /\ Count(dealResult.errors,
                     <<"Deal created but company association failed">>) = 1

\* A lead whose company was created, whose contact was written and whose
\* association request was rejected.
C9_Witness ==
  /\ OpDone
  /\ opKind = "lead"
  /\ CompanyCreateIds # {}
  /\ AssocRejected("contact_to_company")
  /\ summary.success

\* ---------------------------------------------------- bulk sync properties
BulkFinished == bulkPc = "finished"

\* The leads of the events of kind e, in the order they happened.
EventLeads(e) ==
  LET hits == SelectSeq(trace, LAMBDA ev : ev.e = e)
  IN  [k \in 1..Len(hits) |-> hits[k].lead]

Throws == Len(EventLeads("throw"))
AllReturnsSucceeded ==
  \A k \in 1..Len(trace) : trace[k].e = "return" => trace[k].success

\* C10: a bulk run calls the sync of every lead of the list exactly once, in
\* list order, whatever the outcomes; a sync that throws is caught and counted
\* as failed and the leads after it are still attempted; the run reports
\* total = the number of leads, and when every other sync succeeds it reports
\* failed = the number of throws and successful = the rest.
C10_EveryLeadAttemptedOnce ==
  /\ \A l \in Range(bulkLeads) : Count(EventLeads("call"), l) <= 1
  /\ failed >= Throws
  /\ BulkFinished =>
       /\ EventLeads("call") = bulkLeads
       /\ Len(finalResults) = 1
       /\ finalResults[1].total = Len(bulkLeads)
       /\ finalResults[1].failed >= Throws
       /\ AllReturnsSucceeded =>
            /\ finalResults[1].failed = Throws
            /\ finalResults[1].successful = Len(bulkLeads) - Throws

\* A run of MaxLeads leads whose first sync threw and whose last sync
\* returned success.
C10_Witness ==
  /\ BulkFinished
  /\ Len(bulkLeads) = MaxLeads
  /\ \E k \in 1..Len(trace) : trace[k].e = "throw" /\ trace[k].lead = bulkLeads[1]
  /\ \E k \in 1..Len(trace) :
       /\ trace[k].e = "return"
       /\ trace[k].lead = bulkLeads[MaxLeads]
       /\ trace[k].success
  /\ finalResults[1].failed = 1
  /\ finalResults[1].successful = MaxLeads - 1

\* Number of returned summaries whose success flag is b.
Returns(b) ==
  Cardinality({k \in 1..Len(trace) : trace[k].e = "return" /\ trace[k].success = b})

\* C11: when a bulk run has finished, successful + failed = total = the number
\* of leads of the list, successful is the number of leads whose summary had
\* success = true, and failed is the number of leads whose sync threw or
\* returned success = false.
C11_CountersMatchOutcomes ==
  BulkFinished =>
    /\ finalResults[1].total = Len(bulkLeads)
    /\ finalResults[1].successful + finalResults[1].failed = finalResults[1].total
    /\ finalResults[1].successful = Returns(TRUE)
    /\ finalResults[1].failed = Throws + Returns(FALSE)

\* Calls made and calls settled (returned or thrown) so far in the run.
CallsMade == Len(EventLeads("call"))
CallsSettled == Len(EventLeads("return")) + Len(EventLeads("throw"))
SettledLeads ==
  LET hits == SelectSeq(trace, LAMBDA ev : ev.e \in {"return", "throw"})
  IN  [k \in 1..Len(hits) |-> hits[k].lead]
SyncInFlight == opPc \notin {"idle", "done"}

\* C12: in a bulk run at most one lead sync is in flight; the sync of the
\* next lead is called only when the previous one has settled, so that remote
\* requests are made only for the one lead being awaited, and the outcomes
\* are recorded in the order of the list.
C12_OneSyncInFlight ==
  /\ CallsMade - CallsSettled \in {0, 1}
  /\ bulkPc \in {"call", "pause", "finished"} =>
       /\ CallsMade = CallsSettled
       /\ ~SyncInFlight
       /\ log = <<>>
  /\ (SyncInFlight \/ log # <<>>) =>
       /\ bulkPc = "await"
       /\ CallsMade = CallsSettled + 1
       /\ opArg = bulkLeads[bulkIdx]
       /\ CallsMade = bulkIdx
  /\ \A k \in 1..CallsMade : EventLeads("call")[k] = bulkLeads[k]
  /\ \A k \in 1..CallsSettled : SettledLeads[k] = bulkLeads[k]
  /\ bulkVariant = "detailed" =>
       /\ Len(details) = CallsSettled
       /\ \A k \in 1..Len(details) : details[k][1] = bulkLeads[k]

\* The second lead's requests are under way after the first lead has settled.
C12_Witness ==
  /\ bulkPc = "await"
  /\ bulkIdx = 2
  /\ Len(log) >= 2
  /\ CallsSettled = 1

\* The first request of every orchestration call is outside any inner try:
\* its rejection is a throw that only the outer catch handles.
FirstRequestThrew == Len(log) >= 1 /\ ~log[1].ok
RejectedKinds == {log[i].kind : i \in {j \in 1..Len(log) : ~log[j].ok}}

\* C13: no orchestration operation (syncLeadToHubSpot, syncCompany,
\* syncContact, createDealFromPermit, createDealFromPermitWithFallback) lets
\* an exception escape: whatever requests the store rejects, a call in
\* progress can always take its next step, and a finished call has returned a
\* structured outcome (success flag, warnings and/or errors); a throw that
\* reaches the outer catch gives success = false with one error.
C13_NoExceptionEscapes ==
  /\ opPc # "escaped"
  /\ opPc \notin {"idle", "done"} => ENABLED NextOrchestration
  /\ (OpDone /\ opKind # "dealFallback") =>
       /\ DOMAIN summary = {"success", "hubspotId", "warnings", "errors"}
       /\ summary.success \in BOOLEAN
       /\ ~summary.success => Len(summary.errors) >= 1
       /\ FirstRequestThrew =>
            /\ ~summary.success
            /\ Len(summary.errors) = 1
            /\ summary.warnings = <<>>
  /\ (OpDone /\ opKind = "dealFallback") =>
       /\ DOMAIN dealResult = {"success", "id", "failedFields", "errors"}
       /\ dealResult.success \in BOOLEAN
       /\ ~dealResult.success => Len(dealResult.errors) >= 1
       /\ FirstRequestThrew => (~dealResult.success /\ Len(dealResult.errors) = 1)

\* A lead sync that returned its summary after a rejected field update, a
\* rejected association and a rejected note.
C13_Witness ==
  /\ OpDone
  /\ opKind = "lead"
  /\ {"field", "assoc", "note"} \subseteq RejectedKinds
  /\ summary.success

\* ------------------------------------------------ deduplication properties
Deduplicated == dedupPc \in {"once", "twice"}
KeyOf(r) == generateDeduplicationKey(r)
PhoneOf(r) == normalizePhone(r.phone)
DomainOf(r) == extractDomain(r.link)

\* C14: deduplicateResults is idempotent: applied to its own output it
\* returns that output unchanged.
C14_DedupIdempotent ==
  dedupPc = "twice" => deduplicatedAgain = deduplicated

\* A list of three results from which a duplicate was dropped, deduplicated twice.
C14_Witness ==
  /\ dedupPc = "twice"
  /\ Len(results) = 3
  /\ Len(deduplicated) = 2
  /\ deduplicatedAgain = deduplicated

\* Positions of the input that hold the first result of their key.
FirstPositions(xs) ==
  {i \in 1..Len(xs) : \A j \in 1..(i - 1) : KeyOf(xs[j]) # KeyOf(xs[i])}
\* The k-th smallest element of a set of numbers.
Nth(S, k) == CHOOSE i \in S : Cardinality({j \in S : j < i}) = k - 1

\* C15: the output is the subsequence of the input made of the first result
\* of every key that occurs, in the input's order.
C15_FirstOccurrenceSubsequence ==
  Deduplicated =>
    LET first == FirstPositions(results) IN
    /\ Len(deduplicated) = Cardinality(first)
    /\ \A k \in 1..Len(deduplicated) : deduplicated[k] = results[Nth(first, k)]
    /\ {KeyOf(deduplicated[k]) : k \in 1..Len(deduplicated)}
         = {KeyOf(results[i]) : i \in 1..Len(results)}

\* The second of three results was a duplicate of the first; the first and
\* the third are returned in that order.
C15_Witness ==
  /\ Deduplicated
  /\ Len(results) = 3
  /\ KeyOf(results[1]) = KeyOf(results[2])
  /\ results[1] # results[2]
  /\ deduplicated = <<results[1], results[3]>>

\* Two results the function returned together.
Survivors == {<<k, l>> \in (1..Len(deduplicated)) \X (1..Len(deduplicated)) : k # l}
SamePhone(a, b) == PhoneOf(a) # <<>> /\ PhoneOf(a) = PhoneOf(b)
SameDomain(a, b) == DomainOf(a) # <<>> /\ DomainOf(a) = DomainOf(b)

\* Results with the same normalized phone collapse whatever their names and
\* domains are: no two results returned together share a phone.
SamePhoneCollapses ==
  \A p \in Survivors : ~SamePhone(deduplicated[p[1]], deduplicated[p[2]])

\* C16 as stated: results with the same normalized phone collapse to one, and
\* results with the same normalized domain collapse to one even when one of
\* them has a phone and the other has none.
C16_SameDomainCollapsesAcrossPhone ==
  Deduplicated =>
    /\ SamePhoneCollapses
    /\ \A p \in Survivors :
         LET a == deduplicated[p[1]]
             b == deduplicated[p[2]]
         IN  (PhoneOf(a) # <<>> /\ PhoneOf(b) = <<>>) => ~SameDomain(a, b)

\* C16 (amended): results with the same normalized phone collapse to one
\* whatever their names and domains; results with the same normalized domain
\* collapse to one, keyed by domain, when neither has a phone; a result with
\* a phone is keyed by the phone, so a result with a phone and one without
\* that share a domain have different keys and are both returned.
C16_KeyPriority ==
  Deduplicated =>
    /\ SamePhoneCollapses
    /\ \A p \in Survivors :
         LET a == deduplicated[p[1]]
             b == deduplicated[p[2]]
         IN  (PhoneOf(a) = <<>> /\ PhoneOf(b) = <<>>) => ~SameDomain(a, b)
    /\ \A i, j \in 1..Len(results) :
         LET a == results[i]
             b == results[j]
         IN  /\ SamePhone(a, b) => KeyOf(a) = KeyOf(b)
             /\ (SameDomain(a, b) /\ PhoneOf(a) = <<>> /\ PhoneOf(b) = <<>>)
                  => KeyOf(a) = <<"domain", DomainOf(a)>> /\ KeyOf(a) = KeyOf(b)
             /\ (SameDomain(a, b) /\ PhoneOf(a) # <<>> /\ PhoneOf(b) = <<>>)
                  => /\ KeyOf(a) = <<"phone", PhoneOf(a)>>
                     /\ KeyOf(b) = <<"domain", DomainOf(b)>>
                     /\ \E k, l \in 1..Len(deduplicated) :
                          /\ KeyOf(deduplicated[k]) = KeyOf(a)
                          /\ KeyOf(deduplicated[l]) = KeyOf(b)

\* Two results share a phone under different names and domains and collapse;
\* a third has the first one's domain and no phone, and is returned as well.
C16_Witness ==
  /\ Deduplicated
  /\ Len(results) = 3
  /\ SamePhone(results[1], results[2])
  /\ DomainOf(results[1]) # DomainOf(results[2])
  /\ normalizeCompanyName(results[1].title) # normalizeCompanyName(results[2].title)
  /\ SameDomain(results[1], results[3])
  /\ PhoneOf(results[3]) = <<>>
  /\ deduplicated = <<results[1], results[3]>>

DigitsOf(r) == SelectSeq(r.phone, LAMBDA c : c \in Digits)
InputResults == {results[i] : i \in 1..Len(results)}

\* C17 as stated: the normalized phone is non-empty only when exactly 10
\* digits remain; with any other digit count the phone counts as empty and
\* the key is taken from the domain or the name.
C17_PhoneKeptOnlyWithTenDigits ==
  Deduplicated =>
    \A r \in InputResults :
      /\ PhoneOf(r) # <<>> => Len(PhoneOf(r)) = 10
      /\ KeyOf(r)[1] = "phone" => Len(KeyOf(r)[2]) = 10
      /\ (Len(DigitsOf(r)) \notin {10, 11}) => KeyOf(r)[1] # "phone"

\* C17 (amended): phone normalization strips the non-digits and drops the
\* leading 1 of an 11-digit number, which leaves exactly 10 digits for those
\* numbers; for any other digit count the digits are kept as they are, so the
\* phone component is non-empty whenever the phone holds a digit, and the key
\* falls through to domain or name only when it holds none.
C17_PhoneKeptWithAnyDigits ==
  Deduplicated =>
    \A r \in InputResults :
      /\ \A k \in 1..Len(PhoneOf(r)) : PhoneOf(r)[k] \in Digits
      /\ (Len(DigitsOf(r)) = 10
            \/ (Len(DigitsOf(r)) = 11 /\ DigitsOf(r)[1] = "1"))
           => Len(PhoneOf(r)) = 10
      /\ ~(Len(DigitsOf(r)) = 11 /\ DigitsOf(r)[1] = "1")
           => Len(PhoneOf(r)) = Len(DigitsOf(r))
      /\ (PhoneOf(r) # <<>>) <=> (DigitsOf(r) # <<>>)
      /\ (KeyOf(r)[1] = "phone") <=> (DigitsOf(r) # <<>>)
      /\ KeyOf(r)[1] = "phone" => KeyOf(r)[2] = PhoneOf(r)

\* The input holds a number written with a country code 1, a phone of fewer
\* than ten digits that is its result's key, and a phone without any digit.
C17_Witness ==
  /\ Deduplicated
  /\ \E r \in InputResults : Len(DigitsOf(r)) = 11 /\ Len(PhoneOf(r)) = 10
  /\ \E r \in InputResults :
       /\ Len(DigitsOf(r)) \in 1..9
       /\ KeyOf(r) = <<"phone", DigitsOf(r)>>
  /\ \E r \in InputResults :
       /\ r.phone # <<>>
       /\ DigitsOf(r) = <<>>
       /\ KeyOf(r)[1] = "name"

\* ----------------------------------------------- reconciliation note (C18)
NoteRequests == {i \in 1..Len(log) : log[i].kind = "note"}
CreateWrapperDone == wrPc = "done" /\ wrKind = "create"

\* C18: createFailedFieldsNote returns the empty text for an empty map, and
\* createCompanyWithFallback / createContactWithFallback request a note if
\* and only if the sync succeeded with a non-empty failedFields map: never for
\* an empty one, never after a failed sync, never before the sync returned.
C18_NoteIffFailedFields ==
  /\ createFailedFieldsNote(EmptyObject, "Company") = <<>>
  /\ createFailedFieldsNote(EmptyObject, "Contact") = <<>>
  /\ wrPc = "call" => NoteRequests = {}
  /\ CreateWrapperDone =>
       /\ (NoteRequests # {}) <=> (result.success /\ DOMAIN result.failedFields # {})
       /\ Cardinality(NoteRequests) <= 1
       /\ \A i \in NoteRequests :
            /\ i = Len(log)
            /\ log[i].id = result.id
            /\ log[i].props.body # <<>>
            /\ log[i].props.body
                 = createFailedFieldsNote(result.failedFields, RecordLabel)

\* A create that succeeded with failed fields and asked for its note.
C18_Witness ==
  /\ CreateWrapperDone
  /\ result.success
  /\ DOMAIN result.failedFields # {}
  /\ NoteRequests # {}

\* ------------------------------------------- syncLeadToHubSpot properties
LeadOp == opKind = "lead"
\* The answer of the company name search, the first request of the call.
CompanySearched == Len(log) >= 1 /\ log[1].kind = "search"
CompanyFound == CompanySearched /\ log[1].ok /\ log[1].rid # NoId
CompanyNotFound == CompanySearched /\ log[1].ok /\ log[1].rid = NoId
\* The first write of a wrapper call on companies, with the given method.
CompanyCoreWrites(meth) ==
  {i \in 1..Len(log) : /\ log[i].kind = "core"
                       /\ log[i].obj = "companies"
                       /\ log[i].method = meth}
CompanyWrapperRunning == opPc = "leadCompanySync"

\* C19: a syncLeadToHubSpot call makes exactly one primary company write,
\* chosen by the name search: when the search returns a company, the first
\* match is handed to the update wrapper and no company is created; when it
\* returns none, a company is created and none is updated; when the search
\* throws there is no company write at all.
C19_OneCompanyWriteByLookup ==
  LeadOp =>
    /\ CompanyFound =>
         /\ CompanyCoreWrites("POST") = {}
         /\ Cardinality(CompanyCoreWrites("PATCH")) <= 1
         /\ CompanyWrapperRunning => (wrKind = "update" /\ hubspotId = log[1].rid)
         /\ companyId = log[1].rid
         /\ OpDone => /\ Cardinality(CompanyCoreWrites("PATCH")) = 1
                      /\ summary.hubspotId = log[1].rid
    /\ CompanyNotFound =>
         /\ CompanyCoreWrites("PATCH") = {}
         /\ Cardinality(CompanyCoreWrites("POST")) <= 1
         /\ CompanyWrapperRunning => wrKind = "create"
         /\ OpDone => Cardinality(CompanyCoreWrites("POST")) = 1
    /\ ~(CompanyFound \/ CompanyNotFound) =>
         CompanyCoreWrites("POST") \cup CompanyCoreWrites("PATCH") = {}

\* A lead whose company was found has returned after exactly one update of
\* that company.
C19_Witness ==
  /\ LeadOp
  /\ OpDone
  /\ CompanyFound
  /\ Cardinality(CompanyCoreWrites("PATCH")) = 1
  /\ summary.success

\* Requests of a syncLeadToHubSpot call that concern the contact.
ContactSearches ==
  {i \in 1..Len(log) : log[i].kind = "search" /\ log[i].obj = "contacts"}
ContactWrites ==
  {i \in 1..Len(log) : /\ log[i].kind \in {"core", "essential"}
                       /\ log[i].obj = "contacts"}
ContactCreateIds ==
  {log[i].rid : i \in {j \in ContactWrites : log[j].method = "POST" /\ log[j].ok}}
ContactAssociations ==
  {i \in 1..Len(log) : log[i].kind = "assoc" /\ log[i].obj = "contact_to_company"}
LeadHasEmail ==
  /\ LeadRecord(opArg).contact.present
  /\ LeadRecord(opArg).contact.email \notin {Undefined, ""}

\* C20: in syncLeadToHubSpot a contact is written only by a create, only when
\* the lead has a contact email and the one search by that email answered with
\* no contact; once the call has returned, a contact that was created has
\* exactly one association request, from its id to the company id of the call,
\* and no other contact has one; a rejected association request leaves exactly
\* one warning and the success of the summary is that of the company write.
C20_ContactCreatedAndAssociated ==
  LeadOp =>
    /\ \A w \in ContactWrites :
         /\ log[w].method = "POST"
         /\ LeadHasEmail
         /\ \E q \in ContactSearches :
              /\ ContactSearches = {q}
              /\ q < w
              /\ log[q].props = [k \in {"email"} |-> LeadRecord(opArg).contact.email]
              /\ log[q].ok
              /\ log[q].rid = NoId
    /\ ContactAssociations # {} => ContactCreateIds # {}
    /\ OpDone =>
         /\ ContactCreateIds # {} =>
              \E a \in ContactAssociations :
                /\ ContactAssociations = {a}
                /\ log[a].id \in ContactCreateIds
                /\ log[a].props.to = companyId
                /\ summary.hubspotId = companyId
                /\ summary.success = companyResult.success
                /\ Count(summary.warnings,
                         <<"Contact created but association failed">>)
                     = IF log[a].ok THEN 0 ELSE 1
         /\ ContactAssociations = {} =>
              Count(summary.warnings,
                    <<"Contact created but association failed">>) = 0

\* A lead with a contact email has returned successfully after its contact
\* was created and the association of that contact was rejected.
C20_Witness ==
  /\ LeadOp
  /\ OpDone
  /\ ContactCreateIds # {}
  /\ \E a \in ContactAssociations : ~log[a].ok
  /\ summary.success

\* ------------------------------------------------- provenance note (C21)
\* The notes syncLeadToHubSpot itself requests, and the company writes.
ProvenanceNotes ==
  {i \in 1..Len(log) : log[i].kind = "note" /\ log[i].props.body = <<"provenance">>}
CompanyWrites ==
  {i \in 1..Len(log) : /\ log[i].kind \in {"core", "essential"}
                       /\ log[i].obj = "companies"}
CompanyWriteAccepted == \E w \in CompanyWrites : log[w].ok

DealOp == opKind \in {"deal", "dealFallback"}
DealRequests == {i \in 1..Len(log) : log[i].kind = "deal"}
\* What the deal operation returned: the summary of createDealFromPermit, the
\* result of createDealFromPermitWithFallback.
DealOutcome ==
  IF opKind = "deal"
    THEN [success |-> summary.success, id |-> summary.hubspotId, errors |-> summary.errors]
    ELSE [success |-> dealResult.success, id |-> dealResult.id,
          errors |-> dealResult.errors]

\* C22: in both deal operations the deal-create request is the first request
\* and is made at most once; when it is rejected the operation has returned
\* success = false with the failure as its error, and no request of any kind
\* follows it; when it is accepted, the finished operation returns
\* success = true with the id of that deal whatever the note, lookup, company
\* and association requests answered.
C22_DealCreateDecides ==
  DealOp =>
    /\ Cardinality(DealRequests) <= 1
    /\ Len(log) >= 1 => DealRequests = {1}
    /\ (DealRequests # {} /\ ~log[1].ok) =>
         /\ Len(log) = 1
         /\ OpDone
         /\ ~DealOutcome.success
         /\ DealOutcome.id = NoId
         /\ Len(DealOutcome.errors) = 1
         /\ DealOutcome.errors[1] \in {<<"create deal failed">>, <<"Failed to create deal">>}
    /\ (OpDone /\ DealRequests # {} /\ log[1].ok) =>
         /\ DealOutcome.success
         /\ DealOutcome.id = log[1].rid
         /\ DealOutcome.id # NoId

\* A deal was created from a permit, every later request that can be rejected
\* was rejected, and the operation still returned the deal.
C22_Witness ==
  /\ opKind = "deal"
  /\ OpDone
  /\ DealRequests = {1}
  /\ log[1].ok
  /\ {"note", "assoc"} \subseteq RejectedKinds
  /\ summary.success
  /\ Len(summary.warnings) >= 2

DealCreated == DealRequests = {1} /\ log[1].ok
CompanyLookups ==
  {i \in 1..Len(log) : log[i].kind = "search" /\ log[i].obj = "companies"}
DealCompanyAssociations ==
  {i \in 1..Len(log) : log[i].kind = "assoc" /\ log[i].obj = "deal_to_company"}
\* The deal operation asked for the association of its deal with company `c`.
DealAssociatedWith(c) ==
  \E a \in DealCompanyAssociations :
    log[a].id = log[1].rid /\ log[a].props.to = c

\* C23: a finished deal operation that created its deal has looked the
\* operator's company up by name after the deal create; when the lookup
\* returned a company, the association of the deal with that company was
\* requested; when it returned none, a company create was requested and, once
\* a company was created, the association of the deal with it was requested.
C23_CompanyFoundOrCreated ==
  (DealOp /\ OpDone /\ DealCreated) =>
    \E q \in CompanyLookups :
      /\ CompanyLookups = {q}
      /\ q > 1
      /\ (log[q].ok /\ log[q].rid # NoId) => DealAssociatedWith(log[q].rid)
      /\ (log[q].ok /\ log[q].rid = NoId) =>
           /\ \E w \in CompanyWrites : w > q /\ log[w].method = "POST"
           /\ \A c \in CompanyCreateIds : DealAssociatedWith(c)

\* ------------------------------------------------- absent records (C24)
NotFoundMessage ==
  IF opKind = "lead" THEN <<"Lead not found", opArg>>
  ELSE IF opKind = "company" THEN <<"Company not found", opArg>>
  ELSE IF opKind = "contact" THEN <<"Contact not found", opArg>>
  ELSE <<"Permit not found", opArg>>
StoresUntouched ==
  /\ \A l \in DOMAIN leadStore : ~leadStore[l].synced /\ leadStore[l].hubSpotId = NoId
  /\ totalSynced = 0
AfterNotFound == trace # <<>>

\* C24: a call of syncLeadToHubSpot, syncCompany, syncContact or
\* createDealFromPermit for an id its local store does not hold has returned
\* at once with success = false and the not-found message as its only error,
\* without any request and without a change of the stores; after it has
\* returned, everything the next call reads is as it was before the first
\* call, so the next call proceeds as a first call does.
C24_AbsentRecordFailsAlone ==
  /\ (opPc # "idle" /\ AbsentRecord) =>
       /\ OpDone
       /\ ~summary.success
       /\ summary.errors = <<NotFoundMessage>>
       /\ summary.warnings = <<>>
       /\ log = <<>>
       /\ StoresUntouched
  /\ (AfterNotFound /\ opPc = "idle") =>
       /\ StoresUntouched
       /\ log = <<>>
       /\ wrPc = "idle"
       /\ ~trace[1].success
       /\ ENABLED CallSyncLead
       /\ ENABLED CallSyncCompany
       /\ ENABLED CallSyncContact
       /\ ENABLED CallCreateDealFromPermit

\* After a call for an unknown lead has returned its failure, a call for an
\* existing lead has synced that lead.
C24_Witness ==
  /\ AfterNotFound
  /\ trace[1].e = "lead"
  /\ LeadOp
  /\ ~AbsentRecord
  /\ OpDone
  /\ summary.success
  /\ leadStore[opArg].synced

\* ------------------------------------------------------- bulk runs (C25, C30)
StoreRun == bulkVariant \in {"companies", "contacts"}
CallEvents == {j \in 1..Len(trace) : trace[j].e = "call"}

\* C25: in every bulk run (the buttons' performBulkSync over leads,
\* syncAllCompanies, syncAllContacts) an item's sync starts only after the
\* previous item's sync has settled, by a return or by a throw, and the pause
\* that follows it has elapsed, whether the previous item succeeded or not;
\* and a sync is in flight only as the last thing the run started.
C25_PauseBetweenItems ==
  /\ \A j \in CallEvents :
       j > 1 =>
         /\ trace[j - 1].e = "pause"
         /\ j > 2
         /\ trace[j - 2].e \in {"return", "throw"}
  /\ opPc # "idle" => (trace # <<>> /\ trace[Len(trace)].e = "call")

\* In a run of the store an item failed, the pause elapsed and the next
\* item's sync was started.
C25_Witness ==
  /\ StoreRun
  /\ \E j \in CallEvents :
       /\ j > 2
       /\ trace[j - 1].e = "pause"
       /\ trace[j - 2].e = "return"
       /\ ~trace[j - 2].success

StoreRunActive == bulkPc \in {"allCall", "allAwait", "allPause", "allNext"}
StoreRunFinished == StoreRun /\ bulkPc = "finished"
\* The ids of the items whose sync was started, in the order of the calls.
RECURSIVE CalledItems(_)
CalledItems(t) ==
  IF t = <<>> THEN <<>>
  ELSE IF Head(t).e = "call" THEN <<Head(t).lead>> \o CalledItems(Tail(t))
  ELSE CalledItems(Tail(t))
FailedReturns == {j \in 1..Len(trace) : trace[j].e = "return" /\ ~trace[j].success}

\* C30: syncAllCompanies and syncAllContacts hold syncStatus.isSyncing true
\* from before the first item's sync until the run ends, and it is false
\* before a run and after it; the items whose sync was started are always the
\* first items of the store in order, each once, and when the run has ended
\* they are all the items of the store, also when the sync of some item
\* failed.
C30_SyncAllFlagAndCoverage ==
  /\ bulkPc = "idle" => ~isSyncing
  /\ StoreRunActive => isSyncing
  /\ StoreRun =>
       /\ bulkLeads = StoreItems(bulkVariant)
       /\ CalledItems(trace) = SubSeq(bulkLeads, 1, Len(CalledItems(trace)))
       /\ (StoreRunActive /\ bulkPc # "allCall") => Len(CalledItems(trace)) = bulkIdx
  /\ StoreRunFinished =>
       /\ ~isSyncing
       /\ CalledItems(trace) = bulkLeads
       /\ Cardinality({j \in 1..Len(trace) : trace[j].e = "return"}) = Len(bulkLeads)

\* A run over the contacts has ended with isSyncing false after the sync of
\* its first item failed and the syncs of the later items were still made.
C30_Witness ==
  /\ StoreRunFinished
  /\ bulkVariant = "contacts"
  /\ ~isSyncing
  /\ \E j \in FailedReturns : trace[j].lead = bulkLeads[1]
  /\ \E j \in 1..Len(trace) : trace[j].e = "return" /\ trace[j].success

\* ------------------------------------------------ lead bookkeeping (C26, C27)
LeadKnown == LeadOp /\ opArg \in DOMAIN leadStore

\* C26: syncLeadToHubSpot has marked its lead as synced only when it has
\* returned success = true, and the hubSpotId stored with the lead is then a
\* defined remote id, the one of the summary; a lead whose company write
\* failed is not marked.
C26_MarkedOnlyOnSuccess ==
  (LeadKnown /\ leadStore[opArg].synced) =>
    /\ OpDone
    /\ summary.success
    /\ CompanyWriteAccepted
    /\ leadStore[opArg].hubSpotId # NoId
    /\ leadStore[opArg].hubSpotId = summary.hubspotId

\* C27: every contact-to-company association and every provenance note that
\* syncLeadToHubSpot requests names a defined company id; a call whose
\* company create returned no id requests neither.
C27_CompanyIdDefined ==
  LeadOp =>
    /\ \A a \in ContactAssociations : log[a].props.to # NoId
    /\ \A n \in ProvenanceNotes : log[n].id # NoId
    /\ (CompanyNotFound /\ ~CompanyWriteAccepted) =>
         (ContactAssociations = {} /\ ProvenanceNotes = {})

\* ------------------------------------------------- update wrappers (C28)
UpdateWrapper == wrKind = "update" /\ wrPc # "idle"
WriteRequests == {i \in 1..Len(log) : log[i].kind \in {"core", "essential", "field"}}

\* C28: every write request of updateCompanyWithFallback and
\* updateContactWithFallback, the core write, the essential write and each
\* remaining-field update, is addressed to the record hubspotId, and the
\* result the wrapper returns carries hubspotId as its id.
C28_UpdateAddressesRecord ==
  UpdateWrapper =>
    /\ \A i \in WriteRequests :
         /\ log[i].method = "PATCH"
         /\ log[i].id = hubspotId
    /\ wrPc = "done" => result.id = hubspotId

\* ---------------------------------------------------- lead store (C29)
\* C29: after any sequence of searchLeadsByState, addLead, updateLead,
\* markAsSynced and clearLeads, syncStatus.totalSynced is the number of leads
\* whose syncedToHubSpot flag is true, and so at most the number of leads.
C29_TotalSyncedCountsFlags ==
  /\ totalSynced = SyncedCount(leadStore)
  /\ totalSynced <= Cardinality(DOMAIN leadStore)

====
